---- MODULE Spec2Model ----
(***************************************************************************)
(* Lead sourcing and qualification pipeline: the multi-platform scraper,   *)
(* the AI qualifier, the lead status machine and the automation cycle.     *)
(*                                                                         *)
(* Strings that the code slices, lower-cases, concatenates or searches     *)
(* (ids, user names, titles, keywords) are sequences of one-character      *)
(* strings; platform and status names, which the code only compares, are   *)
(* plain strings.                                                          *)
(***************************************************************************)
EXTENDS Integers, Sequences, FiniteSets, TLC

VARIABLES
    \* ---- MultiPlatformScraper (automation/scraper.py)
    scrape_pc,        \* where the scrape is
    keywords,         \* scrape_all's keywords argument
    min_engagement,   \* self.min_engagement
    all_leads,        \* the concatenated adapter results
    filtered,         \* the list after filter_by_engagement
    unique,           \* the list the scrape returns
    \* ---- scrape_all_multilang's fan-out
    max_requests,     \* self.max_requests
    langs_to_scrape,  \* languages argument
    platforms_to_scrape, \* platforms argument
    lang_i,           \* index of the language loop
    plat_i,           \* index of the platform loop
    sub_i,            \* RedditJSONScraper.scrape: index of the subreddit loop
    kw_i,             \* RedditJSONScraper.scrape: index of the keyword loop
    request_count,    \* RedditJSONScraper.scrape: request_count
    adapter_leads,    \* the running adapter's local list (leads)
    requests_issued,  \* polite_get calls made by this scrape so far
    pipeline_keywords, \* run_real_scraping_pipeline's keywords argument
    search_terms,     \* the queries this scrape has sent to the Reddit search
    \* ---- LeadQualifier.qualify_lead (automation/qualifier.py)
    q_pc,             \* where qualify_lead is
    q_lead_data,      \* the keys of the lead_data dict it was given
    q_outcomes,       \* how each call of the reasoning service ended, in order
    q_response,       \* the text the reasoning service answered
    q_result,         \* what qualify_lead returned
    q_exception,      \* the exception qualify_lead logged or raised
    \* ---- run_automation_cycle (automation/scheduler.py)
    cycle_pc,         \* where the cycle is
    cycle_config,     \* check_configuration(): openai, and the outreach switch
    users,            \* the active tenants, in the order the query gave them
    user_i,           \* index of the tenant loop
    outcomes,         \* how each tenant's iteration of this cycle ended
    raw_leads,        \* run_real_scraping_pipeline: candidates still to persist
    created_leads,    \* run_real_scraping_pipeline: created_leads
    session_new,      \* db.session: rows added and not yet committed
    automation_logs,  \* AutomationLog rows this cycle committed
    propagated,       \* the exception that left run_automation_cycle, if any
    cycles_run,       \* cycles started so far
    last_skipped,     \* the candidate the loop has just skipped, and the rows found
    caught,           \* the exception the tenant's except block has caught (e)
    scoring,          \* run_ai_scoring: per lead it was given, the answer and the result
    \* ---- persisted leads and tenants (models.py)
    lead_table,       \* Lead rows, committed: per tenant, in creation order
    emails_sent_count, \* User.emails_sent_count, per tenant
    api_status,       \* HTTP status of the last /send-email answer
    outreach,         \* the outreach operation that has just returned, and its attempts
    \* ---- FollowUpEngine.should_continue_sequence (automation/follow_up_engine.py)
    sc_call,          \* the last call: the lead it looked up and what it returned
    stop_seen,        \* the leads whose status has been in STOP_STATUSES
    \* ---- FollowUpEngine's schedules (automation/follow_up_engine.py)
    sequences,        \* self.sequences: per name, the steps of the sequence
    schedule,         \* the last call of create_follow_up_schedule and its result
    follow_ups,       \* the rows of lead_follow_ups, in order of their ids
    stored_calls,     \* the arguments of the schedules written to lead_follow_ups
    now,              \* datetime.utcnow(), in days
    due,              \* the last call of get_next_pending_emails and its result
    \* ---- FollowUpEngine.personalize_email
    pe_lead_data,     \* lead_data: the fields present and their values
    pe_sender_data,   \* sender_data
    pe_result,        \* the last call: the template and the text returned
    \* ---- polite_get (automation/scraper.py)
    fetch_pc,         \* where the running call is
    fetch_delays,     \* min_sleep and max_sleep of the calls
    fetch_log,        \* the calls that returned: how each ended, what it slept
    \* ---- LeadQualifier.qualify_batch (automation/qualifier.py)
    b_pc,             \* where qualify_batch is
    b_leads,          \* per candidate of leads, what qualify_lead does with it
    b_min_score,      \* min_score
    b_max_to_process, \* max_to_process
    b_i,              \* index of the loop
    b_qualified,      \* the list qualified
    \* ---- the adapters' listing parsers (automation/scraper.py)
    l_pc,             \* where the call is
    l_adapter,        \* which parser was called
    l_items,          \* the entries of the listing the platform serves
    l_i,              \* index of the loop over the entries
    l_results,        \* results (posts): the entries parsed so far
    l_outcome,        \* how the call ended
    \* ---- MultiPlatformScraper.deduplicate on its own (automation/scraper.py)
    d_pc,             \* "idle", "called", "returned"
    d_leads,          \* leads: the argument
    d_unique,         \* unique: the list returned
    \* ---- start_scheduler (automation/scheduler.py), run_scheduler_loop (app.py)
    s_mode,           \* which of the two loops runs
    s_pc,             \* "idle", "start", "cycle", "sleep", "retry_sleep", "stopped", "exited"
    s_initial,        \* the cycle running is start_scheduler's cycle before its loop
    s_clock,          \* the time, in units of the retry delay
    s_started,        \* when the last cycle started, -1 before the first
    s_finished,       \* when the last cycle returned or raised, -1 before
    s_exit,           \* what left the loop: None, "KeyboardInterrupt", "Exception"
    \* ---- the outreach phases over many cycles (automation/outreach_agent.py)
    dispatched,       \* per lead and phase: the emails send_smtp_email delivered
    o_fate,           \* per lead: what generation and dispatch come to for it
    o_tick,           \* the parity of the number of outreach cycles run
    \* ---- two overlapping run_real_scraping_pipeline calls for one tenant
    r_pc,             \* per run: "loop", "commit", "returned"
    r_raw,            \* per run: raw_leads, what its scrape returned
    r_i,              \* per run: the position of its for loop in raw_leads
    r_new,            \* per run: the rows its session added and has not committed
    r_leads           \* the tenant's committed leads

scrapeVars == <<scrape_pc, keywords, min_engagement, all_leads, filtered, unique>>

fanoutVars == <<max_requests, langs_to_scrape, platforms_to_scrape, lang_i, plat_i,
                sub_i, kw_i, request_count, adapter_leads, requests_issued,
                pipeline_keywords, search_terms>>

qualVars == <<q_pc, q_lead_data, q_outcomes, q_response, q_result, q_exception>>

cycleVars == <<cycle_pc, cycle_config, users, user_i, outcomes, raw_leads,
               created_leads, session_new, automation_logs, propagated,
               cycles_run, last_skipped, caught, scoring>>

leadVars == <<lead_table, emails_sent_count, api_status, outreach>>

continueVars == <<sc_call, stop_seen>>

\* The follow-up engine, the fetch helper and the batch qualifier.
scheduleVars == <<sequences, schedule, follow_ups, stored_calls, now, due>>

personalizeVars == <<pe_lead_data, pe_sender_data, pe_result>>

fetchVars == <<fetch_pc, fetch_delays, fetch_log>>

batchVars == <<b_pc, b_leads, b_min_score, b_max_to_process, b_i, b_qualified>>

listingVars == <<l_pc, l_adapter, l_items, l_i, l_results, l_outcome>>

\* The parsers of the adapters.
dedupVars == <<d_pc, d_leads, d_unique>>

loopVars == <<s_mode, s_pc, s_initial, s_clock, s_started, s_finished, s_exit>>

dispatchVars == <<dispatched, o_fate, o_tick>>

raceVars == <<r_pc, r_raw, r_i, r_new, r_leads>>

restVars == <<listingVars, dedupVars, loopVars, dispatchVars, raceVars>>

engineVars == <<continueVars, scheduleVars, personalizeVars, fetchVars, batchVars,
                restVars>>

\* Everything a scrape leaves alone.
nonScrapeVars == <<qualVars, cycleVars, leadVars, engineVars>>

vars == <<scrapeVars, fanoutVars, qualVars, cycleVars, leadVars, engineVars>>

None == "None"

\* qualify_lead's None, and no answer yet.
NoLead == [none |-> TRUE]
NoResponse == [none |-> TRUE]

\* The qualifier before any call.
QualifierIdle ==
    /\ q_pc = "idle"
    /\ q_lead_data = {}
    /\ q_outcomes = <<>>
    /\ q_response = NoResponse
    /\ q_result = NoLead
    /\ q_exception = None

\* No exception has left the cycle; no candidate has been skipped.
NoException == [none |-> TRUE]
NoSkip == [none |-> TRUE]

\* The scheduler before its first cycle.
CycleIdle ==
    /\ cycle_pc = "idle"
    /\ cycle_config = [openai |-> FALSE, outreach |-> FALSE]
    /\ users = <<>>
    /\ user_i = 1
    /\ outcomes = <<>>
    /\ raw_leads = <<>>
    /\ created_leads = 0
    /\ session_new = <<>>
    /\ automation_logs = <<>>
    /\ propagated = NoException
    /\ cycles_run = 0
    /\ last_skipped = NoSkip
    /\ caught = NoException
    /\ scoring = <<>>

\* No scrape is running; the settings are check_configuration's defaults.
ScraperIdle ==
    /\ scrape_pc = "idle"
    /\ keywords = <<>>
    /\ min_engagement = 2
    /\ max_requests = 20
    /\ langs_to_scrape = <<>>
    /\ platforms_to_scrape = <<>>
    /\ all_leads = <<>> /\ filtered = <<>> /\ unique = <<>>
    /\ lang_i = 1 /\ plat_i = 1 /\ sub_i = 1 /\ kw_i = 1
    /\ request_count = 0
    /\ adapter_leads = <<>>
    /\ requests_issued = 0
    /\ pipeline_keywords = <<>>
    /\ search_terms = {}

\* should_continue_sequence has not been called.
NoCall == [none |-> TRUE]

ContinueIdle ==
    /\ sc_call = NoCall
    /\ stop_seen = {}

\* Nothing of the follow-up engine, the fetch helper or the batch qualifier
\* has run.
\* No schedule has been made, none was asked for.
NoSchedule == [none |-> TRUE]
NoDue == [none |-> TRUE]

\* A step of a sequence: FollowUpEmail's sequence_position and delay_days.
FollowUpEmail(sequence_position, delay_days) ==
    [sequence_position |-> sequence_position, delay_days |-> delay_days]

\* DEFAULT_SEQUENCES: the steps of the built-in sequences.
DEFAULT_SEQUENCES ==
    [saas_demo |-> <<FollowUpEmail(1, 0), FollowUpEmail(2, 2),
                     FollowUpEmail(3, 4), FollowUpEmail(4, 7)>>,
     local_business |-> <<FollowUpEmail(1, 0), FollowUpEmail(2, 3),
                          FollowUpEmail(3, 5)>>,
     freelance_services |-> <<FollowUpEmail(1, 0), FollowUpEmail(2, 2),
                              FollowUpEmail(3, 5)>>]

ScheduleIdle ==
    /\ sequences = DEFAULT_SEQUENCES
    /\ schedule = NoSchedule
    /\ follow_ups = <<>>
    /\ stored_calls = <<>>
    /\ now = 0
    /\ due = NoDue

\* personalize_email has not been called; the dicts are empty.
NoResult == [none |-> TRUE]

PersonalizeIdle ==
    /\ pe_lead_data = <<>>
    /\ pe_sender_data = <<>>
    /\ pe_result = NoResult

\* polite_get's default min_sleep and max_sleep, in seconds.
DefaultMinSleep == 3
DefaultMaxSleep == 8

\* No call of polite_get has been made.
FetchIdle ==
    /\ fetch_pc = "idle"
    /\ fetch_delays = [min_sleep |-> DefaultMinSleep, max_sleep |-> DefaultMaxSleep]
    /\ fetch_log = <<>>

\* qualify_batch's default min_score and max_to_process.
DefaultMinScore == 5
DefaultMaxToProcess == 100

\* qualify_batch has not been called.
BatchIdle ==
    /\ b_pc = "idle"
    /\ b_leads = <<>>
    /\ b_min_score = DefaultMinScore
    /\ b_max_to_process = DefaultMaxToProcess
    /\ b_i = 1
    /\ b_qualified = <<>>

\* No listing is being parsed.
ListingIdle ==
    /\ l_pc = "idle"
    /\ l_adapter = None
    /\ l_items = <<>>
    /\ l_i = 1
    /\ l_results = <<>>
    /\ l_outcome = None

DedupIdle ==
    /\ d_pc = "idle"
    /\ d_leads = <<>>
    /\ d_unique = <<>>

LoopIdle ==
    /\ s_mode = None
    /\ s_pc = "idle"
    /\ s_initial = FALSE
    /\ s_clock = 0
    /\ s_started = -1
    /\ s_finished = -1
    /\ s_exit = None

DispatchIdle ==
    /\ dispatched = <<>>
    /\ o_fate = <<>>
    /\ o_tick = 0

RaceIdle ==
    /\ r_pc = <<>>
    /\ r_raw = <<>>
    /\ r_i = <<>>
    /\ r_new = <<>>
    /\ r_leads = <<>>

\* The adapters' parsers and the operations checked on their own are idle.
RestIdle == ListingIdle /\ DedupIdle /\ LoopIdle /\ DispatchIdle /\ RaceIdle

EngineIdle ==
    /\ ContinueIdle
    /\ ScheduleIdle
    /\ PersonalizeIdle
    /\ FetchIdle
    /\ BatchIdle
    /\ RestIdle

\* ------------------------------------------------------------------ bounds

\* Longest list of adapter results given to the filters.
MaxLeads == 3

\* Largest request budget (max_requests) a scrape is started with.
MaxBudget == 6

\* Most leads the adapters return to one fan-out.
MaxScraped == 2

\* Cycles the scheduler runs, one after another.
MaxCycles == 2

\* Tenants the active-tenant query can return.
MaxTenants == 2

\* Most candidates the adapters return to one pipeline run.
MaxFound == 2

\* Most Lead rows in the store when the status operations run.
MaxRows == 2

\* max_emails of the tenants' plan, scaled down.
MaxEmails == 2

Tenants == 1..MaxTenants

\* No outreach operation has just returned.
NoOutreach == [none |-> TRUE]

\* The store before any lead was created.
EmptyStore ==
    /\ lead_table = [u \in Tenants |-> <<>>]
    /\ emails_sent_count = [u \in Tenants |-> 0]
    /\ api_status = 0
    /\ outreach = NoOutreach

\* ------------------------------------------------------------ text helpers

Min(a, b) == IF a <= b THEN a ELSE b
Max(a, b) == IF a >= b THEN a ELSE b

Range(s) == {s[i] : i \in 1..Len(s)}

\* str.lower() on one character.
LowerChar(c) ==
    CASE c = "A" -> "a"
      [] c = "B" -> "b"
      [] c = "S" -> "s"
      [] OTHER -> c

\* str.lower()
Lower(s) == [i \in 1..Len(s) |-> LowerChar(s[i])]

\* s[:n]
Prefix(s, n) == SubSeq(s, 1, Min(n, Len(s)))

\* needle in hay
Contains(hay, needle) ==
    \E i \in 0..(Len(hay) - Len(needle)) : SubSeq(hay, i + 1, i + Len(needle)) = needle

\* lead.title[:50]
TitleKeyLen == 50

\* --------------------------------------------------------------- RawLead

RawLead(p, id, u, t, e) ==
    [platform |-> p, external_id |-> id, username |-> u, title |-> t,
     content |-> t, engagement_score |-> e]

\* ------------------------------------------------- MultiPlatformScraper

\* any(kw.lower() in text for kw in keywords)
MatchesKeyword(lead, kws) ==
    LET text == Lower(lead.title \o <<" ">> \o lead.content)
    IN  \E k \in 1..Len(kws) : Contains(text, Lower(kws[k]))

filter_by_keywords(leads, kws) ==
    IF kws = <<>> THEN leads
    ELSE SelectSeq(leads, LAMBDA lead : MatchesKeyword(lead, kws))

filter_by_engagement_gt(leads, min_score, self_min) ==
    LET threshold == IF min_score # None THEN min_score ELSE self_min
    IN  SelectSeq(leads, LAMBDA lead :
            lead.platform = "indiehackers" \/ lead.engagement_score > threshold)

filter_by_engagement_hn(leads, min_score, self_min) ==
    LET threshold == IF min_score # None THEN min_score ELSE self_min
    IN  SelectSeq(leads, LAMBDA lead :
            lead.platform \in {"indiehackers", "hackernews"}
            \/ lead.engagement_score >= threshold)

filter_by_engagement(leads, min_score, self_min) ==
    LET threshold == IF min_score # None THEN min_score ELSE self_min
    IN  SelectSeq(leads, LAMBDA lead :
            lead.platform = "indiehackers" \/ lead.engagement_score >= threshold)

\* The key deduplicate builds: f"{platform}:{external_id}" when the id is
\* non-empty, else f"{platform}:{username}:{title[:50]}".
DedupKey(lead) ==
    IF lead.external_id # <<>>
    THEN <<lead.platform, ":">> \o lead.external_id
    ELSE <<lead.platform, ":">> \o lead.username \o <<":">>
           \o Prefix(lead.title, TitleKeyLen)

RECURSIVE DedupLoop(_, _, _, _)
DedupLoop(leads, i, seen, out) ==
    IF i > Len(leads) THEN out
    ELSE LET key == DedupKey(leads[i])
         IN  IF key \notin seen
             THEN DedupLoop(leads, i + 1, seen \cup {key}, Append(out, leads[i]))
             ELSE DedupLoop(leads, i + 1, seen, out)

RECURSIVE DedupLastLoop(_, _, _)
DedupLastLoop(leads, i, out) ==
    IF i > Len(leads) THEN out
    ELSE LET key == DedupKey(leads[i])
             rest == SelectSeq(out, LAMBDA o : DedupKey(o) # key)
         IN  DedupLastLoop(leads, i + 1, Append(rest, leads[i]))

deduplicate_last(leads) == DedupLastLoop(leads, 1, <<>>)

deduplicate(leads) == DedupLoop(leads, 1, {}, <<>>)

\* An insertion that puts x before the elements of its own score.
RECURSIVE InsertDescBefore(_, _)
InsertDescBefore(sorted, x) ==
    IF sorted = <<>> THEN <<x>>
    ELSE IF Head(sorted).engagement_score > x.engagement_score
         THEN <<Head(sorted)>> \o InsertDescBefore(Tail(sorted), x)
         ELSE <<x>> \o sorted

\* Stable insertion of x into a list sorted by engagement_score descending:
\* x goes after every element whose score is >= its own.
RECURSIVE InsertDesc(_, _)
InsertDesc(sorted, x) ==
    IF sorted = <<>> THEN <<x>>
    ELSE IF Head(sorted).engagement_score >= x.engagement_score
         THEN <<Head(sorted)>> \o InsertDesc(Tail(sorted), x)
         ELSE <<x>> \o sorted

RECURSIVE SortLoop(_, _, _)
SortLoop(leads, i, out) ==
    IF i > Len(leads) THEN out
    ELSE SortLoop(leads, i + 1, InsertDesc(out, leads[i]))

\* list.sort(key=lambda x: x.engagement_score, reverse=True): stable.
sort_by_engagement(leads) == SortLoop(leads, 1, <<>>)

\* ------------------------------------------------ the filters' inputs

IdAbc == <<"a", "b", "c">>
IdXyz == <<"x", "y", "z">>
IdIh  == <<"i", "h", "_", "0">>
UserU == <<"u">>
UserV == <<"v">>
TitleSaas == <<"S", "a", "a", "S">>
TitleBlog == <<"b", "l", "o", "g">>

Reddit10 == RawLead("reddit", IdAbc, UserU, TitleSaas, 10)
Reddit4  == RawLead("reddit", IdAbc, UserU, TitleSaas, 4)
HackerNews0 == RawLead("hackernews", IdXyz, UserU, TitleBlog, 0)
IndieHackers0 == RawLead("indiehackers", IdIh, UserV, TitleSaas, 0)

RedditPosts ==
    {RawLead("reddit", IdAbc, UserU, TitleSaas, e) : e \in {1, 2, 4, 5, 10}}
    \cup {RawLead("reddit", <<>>, u, TitleSaas, 5) : u \in {UserU, UserV}}
    \cup {RawLead("reddit", <<>>, UserU, TitleBlog, 10)}

HackerNewsStories ==
    {RawLead("hackernews", IdXyz, UserU, TitleBlog, e) : e \in {0, 4, 5}}

IndieHackersPosts ==
    {RawLead("indiehackers", IdIh, UserV, TitleSaas, 0)}

Candidates == RedditPosts \cup HackerNewsStories \cup IndieHackersPosts

SeqsUpTo(S, n) == UNION {[1..k -> S] : k \in 0..n}

KeywordLists == {<<>>, << <<"s", "A", "a", "s">> >>}

MinEngagements == {2, 5}

\* --------------------------------------------------- scrape_all (tail)

InitFilter ==
    /\ scrape_pc = "collected"
    /\ keywords \in KeywordLists
    /\ min_engagement \in MinEngagements
    /\ all_leads \in SeqsUpTo(Candidates, MaxLeads)
    /\ filtered = <<>>
    /\ unique = <<>>
    /\ max_requests = 20
    /\ langs_to_scrape = <<>>
    /\ platforms_to_scrape = <<>>
    /\ lang_i = 1 /\ plat_i = 1 /\ sub_i = 1 /\ kw_i = 1
    /\ request_count = 0
    /\ adapter_leads = <<>>
    /\ requests_issued = 0
    /\ pipeline_keywords = <<>>
    /\ search_terms = {}
    /\ QualifierIdle
    /\ CycleIdle
    /\ EmptyStore
    /\ EngineIdle

\* scrape_all after the platform loop: keyword filter, engagement filter,
\* deduplication, sort.
ScrapeAllFinish ==
    /\ scrape_pc = "collected"
    /\ LET f1 == filter_by_keywords(all_leads, keywords)
           f2 == filter_by_engagement(f1, None, min_engagement)
       IN  /\ filtered' = f2
           /\ unique' = sort_by_engagement(deduplicate(f2))
    /\ scrape_pc' = "scrape_all"
    /\ UNCHANGED <<keywords, min_engagement, all_leads>>
    /\ UNCHANGED fanoutVars
    /\ UNCHANGED nonScrapeVars

\* scrape_all_multilang after the language loop: engagement filter,
\* deduplication, sort (no keyword filter).
ScrapeAllMultilangFinish ==
    /\ scrape_pc = "collected"
    /\ LET f2 == filter_by_engagement(all_leads, None, min_engagement)
       IN  /\ filtered' = f2
           /\ unique' = sort_by_engagement(deduplicate(f2))
    /\ scrape_pc' = "scrape_all_multilang"
    /\ UNCHANGED <<keywords, min_engagement, all_leads>>
    /\ UNCHANGED fanoutVars
    /\ UNCHANGED nonScrapeVars

NextFilter == ScrapeAllFinish \/ ScrapeAllMultilangFinish

SpecFilter == InitFilter /\ [][NextFilter]_vars

\* --------------------------------------- scrape_all_multilang (fan-out)

\* SUBREDDITS_BY_LANGUAGE.get(lang, []): the first five of each list (the
\* fan-out reads at most four).
SubredditsByLanguage(lang) ==
    CASE lang = "en" -> <<"Entrepreneur", "startups", "smallbusiness", "GrowthHacking", "SaaS">>
      [] lang = "es" -> <<"Emprendedores", "mexico", "Colombia", "argentina", "es">>
      [] lang = "pt" -> <<"Empreendedorismo", "brasil", "investimentos", "brdev", "startups_br">>
      [] lang = "fr" -> <<"Entrepreneur_FR", "France", "besoindeparler", "vosfinances", "startups_fr">>
      [] OTHER -> <<>>

ConfiguredLanguages == <<"en", "es", "pt", "fr">>

KeywordsEn == <<<<"c", "o", "l", "d">>, <<"l", "e", "a", "d">>, <<"B", "2", "B">>,
                <<"S", "a", "a", "S">>>>
KeywordsEs == <<<<"f", "r", "i", "o">>, <<"l", "e", "a", "d", "s">>, <<"n", "e", "c">>,
                <<"B", "2", "B">>>>

\* KEYWORDS_BY_LANGUAGE.get(lang, KEYWORDS_BY_LANGUAGE.get("en", [])), each
\* list cut to four abbreviated keywords.
KeywordsByLanguage(lang) ==
    CASE lang = "es" -> KeywordsEs
      [] lang = "pt" -> KeywordsEs
      [] lang = "fr" -> KeywordsEs
      [] OTHER -> KeywordsEn

\* self.scrapers
Scrapers == {"reddit", "hackernews", "indiehackers"}

DefaultPlatforms == <<"reddit", "hackernews", "indiehackers">>

\* subreddits[:4], keywords[:3], max(5, ...) in scrape_all_multilang;
\* keywords[:3] in RedditJSONScraper.scrape
SubredditsPerLang == 4
KeywordsPerLang == 3
KeywordsPerScrape == 3
MinRedditBudget == 5

CurLang == langs_to_scrape[lang_i]
CurPlatform == platforms_to_scrape[plat_i]

\* The arguments scrape_all_multilang gives RedditJSONScraper.scrape.
RedditSubreddits == Prefix(SubredditsByLanguage(CurLang), SubredditsPerLang)
RedditKeywords ==
    Prefix(Prefix(KeywordsByLanguage(CurLang), KeywordsPerLang), KeywordsPerScrape)
RedditBudget == Max(MinRedditBudget, max_requests \div Len(langs_to_scrape))

\* The arguments the callers give scrape_all_multilang.
LanguageArgs == {<<>>, <<"en">>, <<"es", "en">>, <<"de", "en">>}
\* The platforms run_automation_cycle passes for a tenant on the default
\* configuration.
SchedulerDefaultPlatforms == <<"reddit", "hn", "indie_hackers">>

PlatformArgs == {<<>>, SchedulerDefaultPlatforms, <<"hackernews", "reddit">>}

\* What the platforms answer.
RedditResponses == {<<>>, <<Reddit10>>, <<Reddit4>>}
HNStory(id, u, t, score, comments) ==
    [id |-> id, author |-> u, title |-> t, score |-> score, num_comments |-> comments]
HNShowResponses == {<<>>, <<HNStory(IdXyz, UserU, TitleBlog, 3, 2)>>}
HNAskResponses == {<<>>, <<HNStory(IdAbc, UserV, TitleSaas, 4, 0)>>,
                   <<HNStory(IdXyz, UserU, TitleBlog, 0, 0)>>}
IHPost(u, t) == [author |-> u, title |-> t, content |-> t]
IHResponses == {<<>>, <<IHPost(UserV, TitleSaas)>>, <<IHPost(UserU, TitleBlog)>>}

\* get_user_keywords' default list, cut to two abbreviated keywords
\* ('looking for developer', 'SaaS').
DefaultUserKeywords == <<<<"d", "e", "v">>, <<"S", "a", "a", "S">>>>

\* A tenant's own list (UserKeywords.keywords).
CustomUserKeywords == <<<<"c", "r", "m">>>>

\* The keywords run_automation_cycle resolves for a tenant and gives to
\* run_real_scraping_pipeline.
ResolvedKeywords == {DefaultUserKeywords, CustomUserKeywords}

\* Room for a non-empty answer within the model's bound.
Room(resp) == resp = <<>> \/ Len(all_leads) + Len(adapter_leads) + Len(resp) <= MaxScraped

InitScrape ==
    /\ scrape_pc = "platforms"
    /\ keywords = <<>>
    /\ min_engagement \in MinEngagements
    /\ max_requests \in 1..MaxBudget
    /\ \E languages \in LanguageArgs :
        langs_to_scrape = IF languages # <<>> THEN languages ELSE ConfiguredLanguages
    /\ \E platforms \in PlatformArgs :
        platforms_to_scrape = IF platforms # <<>> THEN platforms ELSE DefaultPlatforms
    /\ all_leads = <<>>
    /\ filtered = <<>>
    /\ unique = <<>>
    /\ lang_i = 1 /\ plat_i = 1 /\ sub_i = 1 /\ kw_i = 1
    /\ request_count = 0
    /\ adapter_leads = <<>>
    /\ requests_issued = 0
    /\ pipeline_keywords \in ResolvedKeywords
    /\ search_terms = {}
    /\ QualifierIdle
    /\ CycleIdle
    /\ EmptyStore
    /\ EngineIdle

InPlatformLoop ==
    /\ scrape_pc = "platforms"
    /\ lang_i <= Len(langs_to_scrape)
    /\ plat_i <= Len(platforms_to_scrape)

\* The platform loop ends: next language.
NextLanguage ==
    /\ scrape_pc = "platforms"
    /\ lang_i <= Len(langs_to_scrape)
    /\ plat_i > Len(platforms_to_scrape)
    /\ lang_i' = lang_i + 1
    /\ plat_i' = 1
    /\ UNCHANGED <<scrapeVars, max_requests, langs_to_scrape, platforms_to_scrape,
                   sub_i, kw_i, request_count, adapter_leads, requests_issued,
                   pipeline_keywords, search_terms>>
    /\ UNCHANGED nonScrapeVars

\* The language loop ends.
LanguagesDone ==
    /\ scrape_pc = "platforms"
    /\ lang_i > Len(langs_to_scrape)
    /\ scrape_pc' = "collected"
    /\ UNCHANGED <<keywords, min_engagement, all_leads, filtered, unique, fanoutVars>>
    /\ UNCHANGED nonScrapeVars

\* continue: a platform with no scraper, reddit in a language with no
\* subreddits, a feed platform in a language other than "en".
SkipPlatform ==
    /\ InPlatformLoop
    /\ \/ CurPlatform \notin Scrapers
       \/ CurPlatform = "reddit" /\ SubredditsByLanguage(CurLang) = <<>>
       \/ CurPlatform \in Scrapers \ {"reddit"} /\ CurLang # "en"
    /\ plat_i' = plat_i + 1
    /\ UNCHANGED <<scrapeVars, max_requests, langs_to_scrape, platforms_to_scrape,
                   lang_i, sub_i, kw_i, request_count, adapter_leads, requests_issued,
                   pipeline_keywords, search_terms>>
    /\ UNCHANGED nonScrapeVars

\* scraper.scrape(...) is called on the reddit adapter.
EnterReddit ==
    /\ InPlatformLoop
    /\ CurPlatform = "reddit"
    /\ SubredditsByLanguage(CurLang) # <<>>
    /\ scrape_pc' = "reddit"
    /\ sub_i' = 1 /\ kw_i' = 1
    /\ request_count' = 0
    /\ adapter_leads' = <<>>
    /\ UNCHANGED <<keywords, min_engagement, all_leads, filtered, unique, max_requests,
                   langs_to_scrape, platforms_to_scrape, lang_i, plat_i, requests_issued,
                   pipeline_keywords, search_terms>>
    /\ UNCHANGED nonScrapeVars

\* One scrape_subreddit_search call and the leads built from its posts.
RedditRequest ==
    /\ scrape_pc = "reddit"
    /\ sub_i <= Len(RedditSubreddits)
    /\ kw_i <= Len(RedditKeywords)
    /\ request_count < RedditBudget
    /\ \E posts \in RedditResponses :
        /\ Room(posts)
        /\ adapter_leads' = adapter_leads \o posts
    /\ request_count' = request_count + 1
    /\ requests_issued' = requests_issued + 1
    /\ search_terms' = search_terms \cup {RedditKeywords[kw_i]}
    /\ UNCHANGED pipeline_keywords
    /\ kw_i' = kw_i + 1
    /\ UNCHANGED <<scrapeVars, max_requests, langs_to_scrape, platforms_to_scrape,
                   lang_i, plat_i, sub_i>>
    /\ UNCHANGED nonScrapeVars

\* The keyword loop ends, or breaks on the budget: next subreddit.
RedditNextSubreddit ==
    /\ scrape_pc = "reddit"
    /\ sub_i <= Len(RedditSubreddits)
    /\ \/ kw_i > Len(RedditKeywords)
       \/ kw_i > 1 /\ request_count >= RedditBudget
    /\ sub_i' = sub_i + 1
    /\ kw_i' = 1
    /\ UNCHANGED <<scrapeVars, max_requests, langs_to_scrape, platforms_to_scrape,
                   lang_i, plat_i, request_count, adapter_leads, requests_issued,
                   pipeline_keywords, search_terms>>
    /\ UNCHANGED nonScrapeVars

\* The subreddit loop ends, or breaks on the budget: the adapter returns and
\* scrape_all_multilang extends all_leads.
RedditReturn ==
    /\ scrape_pc = "reddit"
    /\ \/ sub_i > Len(RedditSubreddits)
       \/ kw_i = 1 /\ request_count >= RedditBudget
    /\ all_leads' = all_leads \o adapter_leads
    /\ adapter_leads' = <<>>
    /\ plat_i' = plat_i + 1
    /\ scrape_pc' = "platforms"
    /\ UNCHANGED <<keywords, min_engagement, filtered, unique, max_requests,
                   langs_to_scrape, platforms_to_scrape, lang_i, sub_i, kw_i,
                   request_count, requests_issued,
                   pipeline_keywords, search_terms>>
    /\ UNCHANGED nonScrapeVars

\* HackerNewsScraper.scrape, first half: scrape_show_hn, every story a lead.
HNShow ==
    /\ InPlatformLoop
    /\ CurPlatform = "hackernews"
    /\ CurLang = "en"
    /\ \E stories \in HNShowResponses :
        /\ Room(stories)
        /\ adapter_leads' = [i \in 1..Len(stories) |->
                        RawLead("hackernews", stories[i].id, stories[i].author,
                                stories[i].title,
                                stories[i].score + stories[i].num_comments)]
    /\ requests_issued' = requests_issued + 1
    /\ UNCHANGED <<pipeline_keywords, search_terms>>
    /\ scrape_pc' = "hn_ask"
    /\ UNCHANGED <<keywords, min_engagement, all_leads, filtered, unique, max_requests,
                   langs_to_scrape, platforms_to_scrape, lang_i, plat_i, sub_i, kw_i,
                   request_count>>
    /\ UNCHANGED nonScrapeVars

\* if keywords: keep the story only when a keyword is in the lowered title.
TitleMatches(title, kws) ==
    kws = <<>> \/ \E k \in 1..Len(kws) : Contains(Lower(title), Lower(kws[k]))

\* HackerNewsScraper.scrape, second half: scrape_ask_hn, the stories whose
\* title holds a keyword; the adapter returns.
HNAsk ==
    /\ scrape_pc = "hn_ask"
    /\ \E stories \in HNAskResponses :
        /\ Room(stories)
        /\ LET kept == SelectSeq(stories, LAMBDA st :
                           TitleMatches(st.title, KeywordsByLanguage(CurLang)))
           IN  all_leads' = all_leads \o adapter_leads \o
                   [i \in 1..Len(kept) |->
                       RawLead("hackernews", kept[i].id, kept[i].author,
                               kept[i].title, kept[i].score)]
    /\ adapter_leads' = <<>>
    /\ requests_issued' = requests_issued + 1
    /\ UNCHANGED <<pipeline_keywords, search_terms>>
    /\ plat_i' = plat_i + 1
    /\ scrape_pc' = "platforms"
    /\ UNCHANGED <<keywords, min_engagement, filtered, unique, max_requests,
                   langs_to_scrape, platforms_to_scrape, lang_i, sub_i, kw_i,
                   request_count>>
    /\ UNCHANGED nonScrapeVars

\* Decimal digits of a natural number.
DigitChar(d) == <<"0", "1", "2", "3", "4", "5", "6", "7", "8", "9">>[d + 1]
RECURSIVE ToStr(_)
ToStr(n) == IF n < 10 THEN <<DigitChar(n)>> ELSE ToStr(n \div 10) \o <<DigitChar(n % 10)>>

\* hash(title): a stand-in that, like Python's, is a function of the title
\* and may collide.
CharCode(c) ==
    CASE c = "S" -> 83 [] c = "a" -> 97 [] c = "b" -> 98 [] c = "l" -> 108
      [] c = "o" -> 111 [] c = "g" -> 103 [] OTHER -> 63
RECURSIVE Hash(_)
Hash(t) == IF t = <<>> THEN 0 ELSE CharCode(Head(t)) + 31 * Hash(Tail(t))

HashMod == 10000

\* f"ih_{idx}_{hash(post['title']) % 10000}", idx counted from 0
IHExternalId(idx, title) ==
    <<"i", "h", "_">> \o ToStr(idx) \o <<"_">> \o ToStr(Hash(title) % HashMod)

\* IndieHackersScraper.scrape: scrape_feed, the posts whose title or content
\* holds a keyword, engagement 0.
IHFeed ==
    /\ InPlatformLoop
    /\ CurPlatform = "indiehackers"
    /\ CurLang = "en"
    /\ \E posts \in IHResponses :
        /\ Room(posts)
        /\ LET Keep(i) == \/ KeywordsByLanguage(CurLang) = <<>>
                          \/ MatchesKeyword(posts[i], KeywordsByLanguage(CurLang))
               Lead(i) == [RawLead("indiehackers", IHExternalId(i - 1, posts[i].title),
                                   posts[i].author, posts[i].title, 0)
                              EXCEPT !.content = posts[i].content]
           IN  all_leads' = all_leads \o
                   IF posts # <<>> /\ Keep(1) THEN <<Lead(1)>> ELSE <<>>
    /\ requests_issued' = requests_issued + 1
    /\ UNCHANGED <<pipeline_keywords, search_terms>>
    /\ plat_i' = plat_i + 1
    /\ UNCHANGED <<scrape_pc, keywords, min_engagement, filtered, unique, max_requests,
                   langs_to_scrape, platforms_to_scrape, lang_i, sub_i, kw_i,
                   request_count, adapter_leads>>
    /\ UNCHANGED nonScrapeVars

NextScrape ==
    \/ NextLanguage \/ LanguagesDone \/ SkipPlatform
    \/ EnterReddit \/ RedditRequest \/ RedditNextSubreddit \/ RedditReturn
    \/ HNShow \/ HNAsk \/ IHFeed
    \/ ScrapeAllMultilangFinish

SpecScrape == InitScrape /\ [][NextScrape]_vars

\* ------------------------------------------- claims on the request budget

\* C1: the adapter requests one scrape has issued, over all its languages and
\* platforms, never exceed its request budget max_requests.
C1_RequestBudget == requests_issued <= max_requests

\* C26: every search term the scrape has sent to the keyword search of
\* Reddit is one of the keywords resolved for the tenant, which the pipeline
\* was called with.
C26_SearchTermsOfTenant ==
    search_terms \subseteq Range(pipeline_keywords)

\* ------------------------------------------- claims on the scrape's filters

ScrapeDone == scrape_pc \in {"scrape_all", "scrape_all_multilang"}

\* The natural dedup key of the data model: platform and external_id, or,
\* when the id is absent, platform, author and truncated title.
NaturalKey(lead) ==
    IF lead.external_id # <<>>
    THEN [platform |-> lead.platform, id |-> lead.external_id]
    ELSE [platform |-> lead.platform, author |-> lead.username,
          title |-> Prefix(lead.title, TitleKeyLen)]

WithKey(leads, k) == SelectSeq(leads, LAMBDA lead : NaturalKey(lead) = k)

\* The filters the finished scrape applied before deduplicating: the keyword
\* filter in scrape_all only, the engagement filter in both.
SurvivesFilters(lead) ==
    /\ (scrape_pc = "scrape_all" /\ keywords # <<>>) => MatchesKeyword(lead, keywords)
    /\ lead.platform = "indiehackers" \/ lead.engagement_score >= min_engagement

KeywordsPassAll ==
    scrape_pc = "scrape_all" => filter_by_keywords(all_leads, keywords) = all_leads

\* C6 as stated: reddit "abc" with engagement 10 and 4 and one hackernews
\* story without engagement, minimum 5: the scrape returns the reddit
\* candidate with engagement 10 followed by the hackernews candidate.
C6_HackerNewsExempt ==
    (/\ ScrapeDone
     /\ KeywordsPassAll
     /\ min_engagement = 5
     /\ all_leads = <<Reddit10, Reddit4, HackerNews0>>)
        => unique = <<Reddit10, HackerNews0>>

\* C6 amended: the engagement-exempt platform is indiehackers. With the third
\* candidate on indiehackers the scrape returns the reddit candidate with
\* engagement 10 followed by it; the hackernews story with engagement 0 is
\* dropped and the scrape returns the reddit candidate alone.
C6_IndieHackersExempt ==
    (ScrapeDone /\ KeywordsPassAll /\ min_engagement = 5) =>
        /\ all_leads = <<Reddit10, Reddit4, IndieHackers0>>
            => unique = <<Reddit10, IndieHackers0>>
        /\ all_leads = <<Reddit10, Reddit4, HackerNews0>>
            => unique = <<Reddit10>>

C6_Witness ==
    /\ ScrapeDone
    /\ KeywordsPassAll
    /\ min_engagement = 5
    /\ all_leads = <<Reddit10, Reddit4, IndieHackers0>>
    /\ Len(unique) = 2

\* Platforms whose adapter reports an engagement score.
EngagementPlatforms == {"reddit", "hackernews"}

\* The list the engagement filter was given.
EngagementFilterInput ==
    IF scrape_pc = "scrape_all" THEN filter_by_keywords(all_leads, keywords)
    ELSE all_leads

\* C7: on a platform that exposes engagement, the engagement filter keeps a
\* candidate whose engagement_score equals the minimum and drops one whose
\* engagement_score is one below it.
C7_EngagementBoundary ==
    ScrapeDone =>
        \A i \in 1..Len(EngagementFilterInput) :
            LET lead == EngagementFilterInput[i]
            IN  lead.platform \in EngagementPlatforms =>
                    /\ lead.engagement_score = min_engagement
                        => lead \in Range(filtered)
                    /\ lead.engagement_score = min_engagement - 1
                        => lead \notin Range(filtered)

\* A hackernews story exactly at the minimum was kept and a reddit post one
\* below it was dropped.
C7_Witness ==
    /\ ScrapeDone
    /\ \E i, j \in 1..Len(EngagementFilterInput) :
        LET a == EngagementFilterInput[i]
            b == EngagementFilterInput[j]
        IN  /\ a.platform = "hackernews" /\ a.engagement_score = min_engagement
            /\ a \in Range(filtered)
            /\ b.platform = "reddit" /\ b.engagement_score = min_engagement - 1
            /\ b \notin Range(filtered)

\* Where x stands in a list without repetition.
PositionIn(list, x) == CHOOSE i \in DOMAIN list : list[i] = x

\* C29: what a scrape returns is the deduplicated list reordered by
\* engagement_score descending, and candidates of equal engagement_score
\* stand in the order they had after deduplication.
C29_SortedStable ==
    ScrapeDone
        => LET deduplicated == deduplicate(filtered)
           IN  /\ Len(unique) = Len(deduplicated)
               /\ Range(unique) = Range(deduplicated)
               /\ \A a, b \in DOMAIN unique :
                     a < b => \/ unique[a].engagement_score
                                    > unique[b].engagement_score
                              \/ /\ unique[a].engagement_score
                                        = unique[b].engagement_score
                                 /\ PositionIn(deduplicated, unique[a])
                                        < PositionIn(deduplicated, unique[b])

\* Three candidates came back, the second and third of equal engagement
\* in their order after deduplication, behind a candidate that stood after
\* them and has a higher engagement.
C29_Witness ==
    /\ ScrapeDone
    /\ Len(unique) = 3
    /\ unique[2].engagement_score = unique[3].engagement_score
    /\ unique[2] # unique[3]
    /\ unique[1].engagement_score > unique[2].engagement_score
    /\ LET deduplicated == deduplicate(filtered)
       IN  /\ PositionIn(deduplicated, unique[1]) = 3
           /\ PositionIn(deduplicated, unique[2]) = 1

\* The platforms read by global feed, not by keyword search.
FeedPlatforms == {"hackernews", "indiehackers"}

\* Every returned candidate of a feed platform has one of kws in its
\* title and content, whatever the case.
FeedCandidatesMatch(kws) ==
    \A i \in DOMAIN unique :
        unique[i].platform \in FeedPlatforms => MatchesKeyword(unique[i], kws)

\* C35: in a scrape with the platforms and the language run_automation_cycle
\* passes for a tenant on the default configuration, every platform the loop
\* comes to has a scraper in self.scrapers.
C35_DefaultPlatformsResolve ==
    (platforms_to_scrape = SchedulerDefaultPlatforms
        /\ langs_to_scrape = <<"en">> /\ InPlatformLoop)
        => CurPlatform \in Scrapers

\* C30: every candidate of a feed platform that a scrape returns holds a
\* configured keyword: one of the keywords given to scrape_all, one of the
\* language's keywords in scrape_all_multilang (the feed platforms are read
\* for "en").
C30_FeedCandidatesRelevant ==
    /\ (scrape_pc = "scrape_all" /\ keywords # <<>>)
          => FeedCandidatesMatch(keywords)
    /\ scrape_pc = "scrape_all_multilang"
          => FeedCandidatesMatch(KeywordsByLanguage("en"))

\* The same for scrape_all alone.
ScrapeAllFeedRelevant ==
    (scrape_pc = "scrape_all" /\ keywords # <<>>)
        => FeedCandidatesMatch(keywords)

\* ------------------------------------------- LeadQualifier.qualify_lead

\* The dict keys the prompt reads with lead_data[...] before the try block.
PromptKeys == {"platform", "username", "title", "content", "post_url"}

\* The dicts the callers pass: run_ai_scoring's, and the module's own test's.
SchedulerLeadData == {"title", "content", "platform", "username"}
FullLeadData == {"username", "platform", "title", "content", "post_url", "profile_url"}
LeadDataArgs == {SchedulerLeadData, FullLeadData}

\* retry_if_exception_type((RateLimitError, APIConnectionError, APIError))
RetriedErrors == {"RateLimitError", "APIConnectionError", "APIError"}

\* What else a call can raise: .strip() on a None content, an empty choices list.
OtherErrors == {"AttributeError", "IndexError"}

\* stop_after_attempt(3)
StopAfterAttempt == 3

stop_after_attempt_4(attempt_number) == attempt_number >= StopAfterAttempt + 1

\* tenacity's stop: no retry once this many attempts were made.
stop_after_attempt(attempt_number) == attempt_number >= StopAfterAttempt

\* A JSON value of the answer: an integer, a string, or the key is missing.
IntVal(n) == [int |-> n]
StrVal(x) == [str |-> x]
Missing == [missing |-> TRUE]
IsInt(v) == DOMAIN v = {"int"}

RawScores == {IntVal(n) : n \in {-3, 0, 1, 5, 10, 11, 15}} \cup {StrVal("high"), Missing}
RawBudgets == {StrVal("low"), StrVal("enterprise"), StrVal("unlimited"), Missing}
RawMarkets == {StrVal("large"), StrVal("global"), Missing}

JsonObjects ==
    [score : RawScores, urgency : RawScores, willingness_to_pay : RawScores,
     budget_indicator : RawBudgets, market_size : RawMarkets]

\* The answer's text: an optional markdown fence around a body that is a JSON
\* object, a JSON array, or no JSON at all.
Fences == {"none", "fence", "fence_json", "fence_JSON"}
JsonArray == [array |-> TRUE]
NotJson == [garbage |-> TRUE]
Bodies == JsonObjects \cup {JsonArray, NotJson}
Responses == [fence : Fences, body : Bodies]

JSONDecodeError == [error |-> "JSONDecodeError"]

\* When the text starts with a fence: the text between the first two fences,
\* less a leading 'json' (a tag in other letters stays and is no JSON).
StripFence(resp) ==
    IF resp.fence = "fence_JSON" THEN NotJson ELSE resp.body

\* json.loads(result_text)
JsonLoads(text) ==
    IF text = NotJson THEN JSONDecodeError ELSE text

\* result.get(key, default)
DictGet(obj, key, default) == IF obj[key] = Missing THEN default ELSE obj[key]

clamp_lower_only(v) == IntVal(Max(1, v.int))

\* min(10, max(1, v))
clamp(v) == IntVal(Min(10, Max(1, v.int)))

\* The QualifiedLead qualify_lead builds from the parsed answer, or the
\* exception building it raises.
BuildQualifiedLead(obj) ==
    IF obj = JsonArray THEN [error |-> "AttributeError"]
    ELSE LET score == DictGet(obj, "score", IntVal(5))
             urgency == DictGet(obj, "urgency", IntVal(5))
             wtp == DictGet(obj, "willingness_to_pay", IntVal(5))
         IN  IF ~(IsInt(score) /\ IsInt(urgency) /\ IsInt(wtp))
             THEN [error |-> "TypeError"]
             ELSE [score |-> clamp(score).int,
                   urgency |-> clamp(urgency).int,
                   budget_indicator |-> DictGet(obj, "budget_indicator", StrVal("medium")),
                   market_size |-> DictGet(obj, "market_size", StrVal("small")),
                   willingness_to_pay |-> clamp(wtp).int]

IsError(x) == DOMAIN x = {"error"}

InitQualify ==
    /\ q_pc = "idle"
    /\ q_lead_data \in LeadDataArgs
    /\ q_outcomes = <<>>
    /\ q_response = NoResponse
    /\ q_result = NoLead
    /\ q_exception = None
    /\ ScraperIdle
    /\ CycleIdle
    /\ EmptyStore
    /\ EngineIdle

\* Everything the qualifier leaves alone.
nonQualVars == <<scrapeVars, fanoutVars, cycleVars, leadVars, engineVars>>

\* qualify_lead builds the prompt: lead_data[...] of a missing key raises
\* KeyError, outside the try block.
BuildPrompt ==
    /\ q_pc = "idle"
    /\ IF PromptKeys \subseteq q_lead_data
       THEN q_pc' = "calling" /\ q_exception' = q_exception
       ELSE q_pc' = "raised" /\ q_exception' = "KeyError"
    /\ UNCHANGED <<q_lead_data, q_outcomes, q_response, q_result>>
    /\ UNCHANGED nonQualVars

\* _call_openai: the call raises an error tenacity retries. Before the last
\* attempt it sleeps and calls again; after it, RetryError reaches
\* qualify_lead's except, which returns None.
CallFailsTransient ==
    /\ q_pc = "calling"
    /\ \E err \in RetriedErrors : q_outcomes' = Append(q_outcomes, err)
    /\ IF stop_after_attempt(Len(q_outcomes'))
       THEN q_pc' = "returned" /\ q_result' = NoLead /\ q_exception' = "RetryError"
       ELSE q_pc' = "sleeping" /\ UNCHANGED <<q_result, q_exception>>
    /\ UNCHANGED <<q_lead_data, q_response>>
    /\ UNCHANGED nonQualVars

\* wait_exponential, then the next attempt.
Backoff ==
    /\ q_pc = "sleeping"
    /\ q_pc' = "calling"
    /\ UNCHANGED <<q_lead_data, q_outcomes, q_response, q_result, q_exception>>
    /\ UNCHANGED nonQualVars

\* _call_openai: the call raises an error tenacity does not retry; it reaches
\* qualify_lead's except, which returns None.
CallFailsOther ==
    /\ q_pc = "calling"
    /\ \E err \in OtherErrors :
        /\ q_outcomes' = Append(q_outcomes, err)
        /\ q_exception' = err
    /\ q_pc' = "returned"
    /\ q_result' = NoLead
    /\ UNCHANGED <<q_lead_data, q_response>>
    /\ UNCHANGED nonQualVars

\* _call_openai returns the answer's text; qualify_lead parses it and builds
\* the QualifiedLead, returning None on any exception.
CallSucceeds ==
    /\ q_pc = "calling"
    /\ q_outcomes' = Append(q_outcomes, "ok")
    /\ \E resp \in Responses :
        /\ q_response' = resp
        /\ LET parsed == JsonLoads(StripFence(resp))
               built == IF IsError(parsed) THEN parsed ELSE BuildQualifiedLead(parsed)
           IN  IF IsError(built)
               THEN q_result' = NoLead /\ q_exception' = built.error
               ELSE q_result' = built /\ q_exception' = q_exception
    /\ q_pc' = "returned"
    /\ UNCHANGED q_lead_data
    /\ UNCHANGED nonQualVars

NextQualify ==
    BuildPrompt \/ CallFailsTransient \/ Backoff \/ CallFailsOther \/ CallSucceeds

SpecQualify == InitQualify /\ [][NextQualify]_vars

\* ------------------------------------------------ claims on the qualifier

\* C8: for one candidate the reasoning service is called at most 3 times; every
\* call but the last ended in a retried (transient) error, so a retry follows
\* only a transient failure and nothing follows a success; and after the third
\* transient failure in a row qualify_lead has returned null.
C8_AtMostThreeCalls ==
    /\ Len(q_outcomes) <= 3
    /\ \A i \in 1..(Len(q_outcomes) - 1) : q_outcomes[i] \in RetriedErrors
    /\ q_pc \in {"calling", "sleeping"} =>
            \A i \in 1..Len(q_outcomes) : q_outcomes[i] \in RetriedErrors
    /\ (Len(q_outcomes) = 3 /\ q_outcomes[3] \in RetriedErrors) =>
            q_pc = "returned" /\ q_result = NoLead

\* Three transient failures in a row, and null returned.
C8_Witness ==
    /\ Len(q_outcomes) = 3
    /\ \A i \in 1..3 : q_outcomes[i] \in RetriedErrors
    /\ q_pc = "returned"
    /\ q_result = NoLead

\* C9: qualify_lead never raises past its boundary, whatever candidate its
\* caller passes and whatever the reasoning service does.
C9_NeverRaises == q_pc # "raised"

\* The clamped value of an integer of the answer.
Clamped(n) == IF n > 10 THEN 10 ELSE IF n < 1 THEN 1 ELSE n

\* C10: in the QualifiedLead returned, score, urgency and willingness_to_pay
\* are the answer's integers clamped into [1,10]: above 10 becomes 10, below 1
\* becomes 1, in-range values are unchanged.
C10_Clamped ==
    (q_pc = "returned" /\ q_result # NoLead) =>
        \A f \in {"score", "urgency", "willingness_to_pay"} :
            /\ q_result[f] \in 1..10
            /\ IsInt(q_response.body[f]) => q_result[f] = Clamped(q_response.body[f].int)

\* A QualifiedLead returned for an answer with score 15 and urgency -3.
C10_Witness ==
    /\ q_pc = "returned"
    /\ q_result # NoLead
    /\ q_response.body.score = IntVal(15)
    /\ q_response.body.urgency = IntVal(-3)
    /\ q_result.score = 10
    /\ q_result.urgency = 1

\* The values the prompt asks for in budget_indicator and market_size.
BudgetTiers == {"low", "medium", "high", "enterprise"}

MarketSizes == {"small", "medium", "large"}

\* C32: every QualifiedLead qualify_lead returns has its budget_indicator
\* among low, medium, high, enterprise and its market_size among small,
\* medium, large, whatever the reasoning service answered.
C32_TiersValidated ==
    (q_pc = "returned" /\ q_result # NoLead) =>
        /\ q_result.budget_indicator \in {StrVal(b) : b \in BudgetTiers}
        /\ q_result.market_size \in {StrVal(m) : m \in MarketSizes}

\* ====================================================================
\* run_automation_cycle and run_real_scraping_pipeline
\* (automation/scheduler.py)
\* ====================================================================

\* A RawLead together with its post_url.
RawLeadAt(p, id, u, t, e, url) ==
    [platform |-> p, external_id |-> id, username |-> u, title |-> t,
     content |-> t, engagement_score |-> e, post_url |-> url]

\* What the adapters can return to a pipeline run.  The Reddit adapter
\* takes the id from post.get('id', '') and the URL from
\* "https://reddit.com" + post.get('permalink', ''); the Hacker News
\* adapter builds the URL from the story id.
ScrapedPosts ==
    { RawLeadAt("reddit", IdAbc, UserU, TitleSaas, 10, "reddit.com/r/saas/abc"),
      RawLeadAt("reddit", IdAbc, UserU, TitleSaas, 10, "reddit.com"),
      RawLeadAt("hackernews", IdAbc, UserU, TitleBlog, 5,
                "news.ycombinator.com/item?id=abc"),
      RawLeadAt("reddit", <<>>, UserV, TitleSaas, 5, "reddit.com"),
      RawLeadAt("reddit", IdXyz, UserV, TitleBlog, 1, "reddit.com/r/saas/xyz") }

\* What scrape_all_multilang returns for the adapters' results.
scrape_all_multilang(found, self_min) ==
    sort_by_engagement(deduplicate(filter_by_engagement(found, None, self_min)))

\* Lead(...) as run_real_scraping_pipeline builds it; email stays unset.
Lead(user_id, raw) ==
    [user_id |-> user_id, platform |-> raw.platform,
     external_id |-> raw.external_id, post_url |-> raw.post_url,
     status |-> "new",
     score |-> Min(10, Max(1, (raw.engagement_score \div 5) + 5)),
     email |-> None, email_replied |-> FALSE]

\* The rows of a table, by primary key: the table keeps each tenant's rows
\* in creation order, and <<u, i>> is the key of tenant u's i-th row.  (No
\* query orders rows of different tenants against each other.)
RowIds(table) == UNION {{<<u, i>> : i \in DOMAIN table[u]} : u \in DOMAIN table}

Rows(table) == [id \in RowIds(table) |-> table[id[1]][id[2]]]

\* The table with the session's uncommitted rows, which belong to the
\* tenant being processed.
Flushed(table, new_rows, user_id) ==
    IF new_rows = <<>> THEN table
    ELSE [table EXCEPT ![user_id] = @ \o new_rows]

\* The rows the existence query sees: the committed ones and, because the
\* session flushes before a query, the ones added in this transaction.
SessionRows == Rows(Flushed(lead_table, session_new, users[user_i]))

existing_by_post_url(user_id, raw, rows) ==
    {i \in DOMAIN rows :
        /\ rows[i].user_id = user_id
        /\ rows[i].post_url = raw.post_url}

\* Lead.query.filter(Lead.user_id == user_id,
\*     (Lead.external_id == raw.external_id) | (Lead.post_url == raw.post_url))
existing(user_id, raw, rows) ==
    {i \in DOMAIN rows :
        /\ rows[i].user_id = user_id
        /\ (rows[i].external_id = raw.external_id
            \/ rows[i].post_url = raw.post_url)}

\* The exceptions a step can raise; all are subclasses of Exception.
Exceptions == {"OperationalError", "ValueError"}

except_nothing(exc) == FALSE

\* except Exception as e
except_Exception(exc) == exc \in Exceptions

\* The lists the active-tenant query can return: no tenant twice.
TenantLists ==
    {us \in SeqsUpTo(Tenants, MaxTenants) :
        \A i, j \in DOMAIN us : i # j => us[i] # us[j]}

Configurations == [openai : BOOLEAN, outreach : BOOLEAN]

\* The scheduler process starts: its environment decides the configuration
\* that check_configuration reads in every cycle.
InitCycle ==
    /\ ScraperIdle
    /\ QualifierIdle
    /\ EngineIdle
    /\ cycle_pc = "idle"
    /\ cycle_config \in Configurations
    /\ users = <<>>
    /\ user_i = 1
    /\ outcomes = <<>>
    /\ raw_leads = <<>>
    /\ created_leads = 0
    /\ session_new = <<>>
    /\ automation_logs = <<>>
    /\ propagated = NoException
    /\ cycles_run = 0
    /\ last_skipped = NoSkip
    /\ caught = NoException
    /\ scoring = <<>>
    /\ EmptyStore

\* Everything the cycle leaves alone.
nonCycleVars == <<scrapeVars, fanoutVars, qualVars, engineVars>>

CycleUser == users[user_i]

BetweenCycles == cycle_pc \in {"idle", "done", "skipped", "raised"}

\* Steps inside the per-tenant try block.
TenantSteps == {"config", "scrape", "persist", "scoring", "outreach", "log"}

\* Those that raise into the tenant's except block: run_ai_scoring and the
\* outreach step catch their own exceptions.
RaisingSteps == TenantSteps \ {"scoring", "outreach"}

\* ------------------------------------ OutreachAgent (outreach_agent.py)

\* Lead.score >= 9
InitialOutreachScore == 9

\* agent.process_outreach_cycle(limit=5)
OutreachLimit == 5

\* .limit(limit).all(): any `limit` of the matching rows, all of them when
\* there are fewer.
Limited(matching, limit) ==
    {sel \in SUBSET matching :
        Cardinality(sel) = Min(limit, Cardinality(matching))}

SetStatus(table, sent, status) ==
    [u \in DOMAIN table |->
        [i \in DOMAIN table[u] |->
            IF <<u, i>> \in sent THEN [table[u][i] EXCEPT !.status = status]
            ELSE table[u][i]]]

\* The rows _run_initial_outreach selects from.
initial_outreach_query(table) ==
    LET rows == Rows(table)
    IN  {id \in DOMAIN rows :
            /\ rows[id].status = "new"
            /\ rows[id].score >= InitialOutreachScore
            /\ rows[id].email # None}

\* The rows _run_auto_closing selects from.
auto_closing_query(table) ==
    LET rows == Rows(table)
    IN  {id \in DOMAIN rows :
            /\ rows[id].status = "responded"
            /\ rows[id].email # None}

\* What becomes of a lead _run_initial_outreach selected: no subject or
\* body was generated, send_smtp_email reported a failure, or the email
\* was sent.
InitialOutcomes == {"no_content", "send_failed", "sent"}

\* What becomes of a lead _run_auto_closing selected: no content was
\* generated, the reply's intent is not positive, send_smtp_email reported
\* a failure, or the closing email was sent.
ClosingOutcomes == {"no_content", "not_positive", "send_failed", "sent"}

\* The outcomes in which send_smtp_email was called.
DispatchOutcomes == {"send_failed", "sent"}

\* `if success:` guarding the status change of both phases, with the
\* guard it would be if the generated content alone were enough.
if_content(outcome) == outcome \in DispatchOutcomes

if_success(outcome) == outcome = "sent"

\* The rows of one phase whose status the phase changes.
Marked(attempts) == {id \in DOMAIN attempts : if_success(attempts[id])}

\* `if not self.qualifier: return None, None`: without OPENAI_API_KEY the
\* agent has no qualifier and generates no content.
Generated(has_qualifier, possible) ==
    IF has_qualifier THEN possible ELSE {"no_content"}

\* The selections _run_initial_outreach can make, with the outcome of
\* each selected lead.
InitialAttempts(table, limit, has_qualifier) ==
    UNION {[sel -> Generated(has_qualifier, InitialOutcomes)] :
              sel \in Limited(initial_outreach_query(table), limit)}

\* The table _run_initial_outreach leaves: the rows whose email was sent
\* become 'contacted'.
apply_initial(table, attempts) ==
    SetStatus(table, Marked(attempts), "contacted")

\* The tables _run_initial_outreach can leave.
run_initial_outreach(table, limit) ==
    {apply_initial(table, attempts) :
        attempts \in InitialAttempts(table, limit, TRUE)}

\* The rows sent are marked as answered (lead.email_replied = True).
SetReplied(table, sent, replied) ==
    [u \in DOMAIN table |->
        [i \in DOMAIN table[u] |->
            IF <<u, i>> \in sent
            THEN [table[u][i] EXCEPT !.email_replied = replied]
            ELSE table[u][i]]]

\* The selections _run_auto_closing can make, with the outcome of each
\* selected lead.
ClosingAttempts(table, limit, has_qualifier) ==
    UNION {[sel -> Generated(has_qualifier, ClosingOutcomes)] :
              sel \in Limited(auto_closing_query(table), limit)}

\* The table _run_auto_closing leaves: the rows whose closing email was
\* sent become 'closing' and are marked as answered.
apply_closing(table, attempts) ==
    SetReplied(SetStatus(table, Marked(attempts), "closing"),
               Marked(attempts), TRUE)

\* The tables _run_auto_closing can leave.
run_auto_closing(table, limit) ==
    {apply_closing(table, attempts) :
        attempts \in ClosingAttempts(table, limit, TRUE)}

\* The runs of process_outreach_cycle: the initial outreach, then the
\* auto-closing on the table the initial outreach left.
OutreachRuns(table, limit, has_qualifier) ==
    UNION {{[initial |-> initial, closing |-> closing,
             table |-> apply_closing(apply_initial(table, initial), closing)] :
               closing \in ClosingAttempts(apply_initial(table, initial),
                                           limit, has_qualifier)} :
              initial \in InitialAttempts(table, limit, has_qualifier)}

\* The tables process_outreach_cycle can leave.
process_outreach_cycle(table, limit) ==
    {run.table : run \in OutreachRuns(table, limit, TRUE)}

\* The attempts of a run: the lead, the phase that selected it, what
\* became of it.
Attempts(run) ==
    {[id |-> id, phase |-> "initial", outcome |-> run.initial[id]] :
        id \in DOMAIN run.initial}
    \cup {[id |-> id, phase |-> "closing", outcome |-> run.closing[id]] :
            id \in DOMAIN run.closing}

\* process_outreach_cycle takes no tenant.
NoTenant == 0

\* The record of an outreach operation: who ran it and for which tenant,
\* the table it found, its attempts, the table it left.
OutreachRecord(by, user, before, attempts, after) ==
    [by |-> by, user |-> user, before |-> before, attempts |-> attempts,
     after |-> after]

\* ------------------------------------------------ the cycle's actions

\* The step after run_real_scraping_pipeline returned `created` leads.
AfterPipeline(created) ==
    IF created > 0 /\ cycle_config.openai THEN "scoring"
    ELSE IF created > 0 /\ cycle_config.outreach THEN "outreach"
    ELSE "log"

AfterScoring == IF cycle_config.outreach THEN "outreach" ELSE "log"

\* The for loop moves to the next tenant, or ends.
NextUser ==
    /\ user_i' = user_i + 1
    /\ cycle_pc' = IF user_i = Len(users) THEN "done" ELSE "config"

\* run_automation_cycle starts: check_configuration, the tenant query, and
\* the return when there is no tenant.
StartCycle ==
    /\ BetweenCycles
    /\ cycles_run < MaxCycles
    /\ \E us \in TenantLists :
          /\ users' = us
          /\ cycle_pc' = IF us = <<>> THEN "skipped" ELSE "config"
    /\ user_i' = 1
    /\ outcomes' = <<>>
    /\ raw_leads' = <<>>
    /\ created_leads' = 0
    /\ propagated' = NoException
    /\ cycles_run' = cycles_run + 1
    /\ automation_logs' = <<>>
    /\ UNCHANGED <<cycle_config, session_new, last_skipped>>
    /\ UNCHANGED leadVars
    /\ UNCHANGED caught
    /\ UNCHANGED scoring
    /\ UNCHANGED nonCycleVars

\* check_configuration or the tenant query raises: nothing catches it.
ResolveUsersRaises ==
    /\ BetweenCycles
    /\ cycles_run < MaxCycles
    /\ \E exc \in Exceptions :
          propagated' = [at |-> "users", exc |-> exc]
    /\ cycle_pc' = "raised"
    /\ users' = <<>>
    /\ user_i' = 1
    /\ outcomes' = <<>>
    /\ raw_leads' = <<>>
    /\ created_leads' = 0
    /\ cycles_run' = cycles_run + 1
    /\ automation_logs' = <<>>
    /\ UNCHANGED <<cycle_config, session_new, last_skipped>>
    /\ UNCHANGED leadVars
    /\ UNCHANGED caught
    /\ UNCHANGED scoring
    /\ UNCHANGED nonCycleVars

\* The tenant's configuration is looked up (UserKeywords, or the defaults).
ResolveConfig ==
    /\ cycle_pc = "config"
    /\ cycle_pc' = "scrape"
    /\ UNCHANGED <<cycle_config, users, user_i, outcomes, raw_leads,
                   created_leads, session_new, automation_logs, propagated,
                   cycles_run, last_skipped>>
    /\ UNCHANGED leadVars
    /\ UNCHANGED caught
    /\ UNCHANGED scoring
    /\ UNCHANGED nonCycleVars

\* run_real_scraping_pipeline up to the persistence loop: the scrape, and
\* the return of [] when it found nothing.
Scrape ==
    /\ cycle_pc = "scrape"
    /\ \E found \in SeqsUpTo(ScrapedPosts, MaxFound) :
          LET raw == scrape_all_multilang(found, min_engagement)
          IN  /\ raw_leads' = raw
              /\ cycle_pc' = IF raw = <<>> THEN AfterPipeline(0) ELSE "persist"
    /\ created_leads' = 0
    /\ UNCHANGED <<cycle_config, users, user_i, outcomes, session_new,
                   automation_logs, propagated, cycles_run, last_skipped>>
    /\ UNCHANGED leadVars
    /\ UNCHANGED caught
    /\ UNCHANGED scoring
    /\ UNCHANGED nonCycleVars

\* One turn of the persistence loop for a candidate the tenant already has.
SkipExisting ==
    /\ cycle_pc = "persist"
    /\ raw_leads # <<>>
    /\ LET raw == Head(raw_leads)
           found == existing(CycleUser, raw, SessionRows)
       IN  /\ found # {}
           /\ last_skipped' = [raw |-> raw, rows |-> found,
                               user_id |-> CycleUser, cycle |-> cycles_run]
    /\ raw_leads' = Tail(raw_leads)
    /\ UNCHANGED <<cycle_pc, cycle_config, users, user_i, outcomes,
                   created_leads, session_new, automation_logs, propagated,
                   cycles_run>>
    /\ UNCHANGED leadVars
    /\ UNCHANGED caught
    /\ UNCHANGED scoring
    /\ UNCHANGED nonCycleVars

\* One turn of the persistence loop for a new candidate.
AddLead ==
    /\ cycle_pc = "persist"
    /\ raw_leads # <<>>
    /\ LET raw == Head(raw_leads)
       IN  /\ existing(CycleUser, raw, SessionRows) = {}
           /\ session_new' = Append(session_new, Lead(CycleUser, raw))
    /\ created_leads' = created_leads + 1
    /\ raw_leads' = Tail(raw_leads)
    /\ last_skipped' = NoSkip
    /\ UNCHANGED <<cycle_pc, cycle_config, users, user_i, outcomes,
                   automation_logs, propagated, cycles_run>>
    /\ UNCHANGED leadVars
    /\ UNCHANGED caught
    /\ UNCHANGED scoring
    /\ UNCHANGED nonCycleVars

\* After the loop: commit when leads were created, and return them.
PipelineReturn ==
    /\ cycle_pc = "persist"
    /\ raw_leads = <<>>
    /\ lead_table' = IF created_leads > 0
                     THEN Flushed(lead_table, session_new, CycleUser)
                     ELSE lead_table
    /\ session_new' = IF created_leads > 0 THEN <<>> ELSE session_new
    /\ cycle_pc' = AfterPipeline(created_leads)
    /\ last_skipped' = NoSkip
    /\ UNCHANGED <<cycle_config, users, user_i, outcomes, raw_leads,
                   created_leads, automation_logs, propagated, cycles_run>>
    /\ UNCHANGED <<emails_sent_count, api_status, outreach>>
    /\ UNCHANGED caught
    /\ UNCHANGED scoring
    /\ UNCHANGED nonCycleVars

\* What the reasoning service answers when it is asked about a lead: a
\* JSON object with every field, a text that is no JSON.
ScoringAnswers ==
    {[fence |-> "none",
      body |-> [score |-> IntVal(1), urgency |-> IntVal(15),
                willingness_to_pay |-> IntVal(5),
                budget_indicator |-> StrVal("low"),
                market_size |-> StrVal("large")]],
     [fence |-> "none", body |-> NotJson]}

\* qualify_lead(lead_data) when the service answers `response`: the
\* QualifiedLead, None (NoLead), or the exception that leaves the call.
qualify_lead(lead_data, response) ==
    IF ~ (PromptKeys \subseteq lead_data) THEN [error |-> "KeyError"]
    ELSE LET result == JsonLoads(StripFence(response))
         IN  IF result = JSONDecodeError THEN NoLead
             ELSE IF IsError(BuildQualifiedLead(result)) THEN NoLead
             ELSE BuildQualifiedLead(result)

\* @dataclass QualifiedLead defines no get method: result.get(...) raises
\* AttributeError.
QualifiedLeadHasGet == FALSE

\* The body of run_ai_scoring's loop for one lead: the exception of
\* qualify_lead or of result.get is caught (continue), None is passed
\* over, and otherwise the fields are taken from the result.
score_lead(row, result) ==
    IF IsError(result) THEN row
    ELSE IF result = NoLead THEN row
    ELSE IF ~ QualifiedLeadHasGet THEN row
    ELSE [row EXCEPT !.score = result.score]

\* The leads run_real_scraping_pipeline returned: the tenant's newest rows.
CreatedIds ==
    {<<CycleUser, i>> :
        i \in (Len(lead_table[CycleUser]) - created_leads + 1)
                ..Len(lead_table[CycleUser])}

\* run_ai_scoring(leads): every lead is given to qualify_lead as a dict of
\* title, content, platform and username; then the commit.
RunAiScoring ==
    /\ cycle_pc = "scoring"
    /\ \E answers \in [CreatedIds -> ScoringAnswers] :
          LET result(id) == qualify_lead(SchedulerLeadData, answers[id])
          IN  /\ lead_table' =
                    [u \in DOMAIN lead_table |->
                        [i \in DOMAIN lead_table[u] |->
                            IF <<u, i>> \in CreatedIds
                            THEN score_lead(lead_table[u][i], result(<<u, i>>))
                            ELSE lead_table[u][i]]]
              /\ scoring' = [id \in CreatedIds |->
                               [response |-> answers[id], result |-> result(id)]]
    /\ cycle_pc' = AfterScoring
    /\ UNCHANGED <<cycle_config, users, user_i, outcomes, raw_leads,
                   created_leads, session_new, automation_logs, propagated,
                   cycles_run, last_skipped>>
    /\ UNCHANGED <<emails_sent_count, api_status, outreach>>
    /\ UNCHANGED caught
    /\ UNCHANGED nonCycleVars

\* The outreach step of the cycle; OPENAI_API_KEY is what
\* check_configuration read.
RunOutreach ==
    /\ cycle_pc = "outreach"
    /\ \E run \in OutreachRuns(lead_table, OutreachLimit, cycle_config.openai) :
          /\ lead_table' = run.table
          /\ outreach' = OutreachRecord("cycle", CycleUser, lead_table,
                                        Attempts(run), run.table)
    /\ cycle_pc' = "log"
    /\ UNCHANGED <<cycle_config, users, user_i, outcomes, raw_leads,
                   created_leads, session_new, automation_logs, propagated,
                   cycles_run, last_skipped>>
    /\ UNCHANGED <<emails_sent_count, api_status>>
    /\ UNCHANGED caught
    /\ UNCHANGED scoring
    /\ UNCHANGED nonCycleVars

\* error_message=str(e)[:500]
ErrorMessageLen == 500

\* len(str(e)): an OperationalError's text carries the statement and its
\* parameters, a ValueError's is short.
StrLen == [OperationalError |-> 600, ValueError |-> 20]

NoMessage == [none |-> TRUE]

\* The AutomationLog of a tenant that went through.
run_log(leads_created) ==
    [status |-> IF leads_created > 0 THEN "success" ELSE "no_new_leads",
     error_message |-> NoMessage]

\* An except block that logs the tenant as one without new leads.
error_log_as_no_new_leads(e) == run_log(0)

\* The AutomationLog of the except block: the first 500 characters of str(e).
error_log(e) ==
    [status |-> "error",
     error_message |-> [of |-> e, length |-> Min(StrLen[e], ErrorMessageLen)]]

\* The AutomationLog row of a tenant that went through, and its commit.
LogRun ==
    /\ cycle_pc = "log"
    /\ automation_logs' = Append(automation_logs, run_log(created_leads))
    /\ outcomes' = Append(outcomes, run_log(created_leads).status)
    /\ NextUser
    /\ UNCHANGED <<cycle_config, users, raw_leads, created_leads, session_new,
                   propagated, cycles_run, last_skipped>>
    /\ outreach' = NoOutreach
    /\ UNCHANGED <<lead_table, emails_sent_count, api_status>>
    /\ UNCHANGED caught
    /\ scoring' = <<>>
    /\ UNCHANGED nonCycleVars

\* A step inside the try block raises.
StepRaises ==
    /\ cycle_pc \in RaisingSteps
    /\ \E exc \in Exceptions :
          IF except_Exception(exc)
          THEN /\ cycle_pc' = "handler"
               /\ caught' = [exc |-> exc]
               /\ UNCHANGED propagated
          ELSE /\ cycle_pc' = "raised"
               /\ propagated' = [at |-> cycle_pc, exc |-> exc]
               /\ UNCHANGED caught
    /\ UNCHANGED scoring
    /\ last_skipped' = NoSkip
    /\ UNCHANGED <<cycle_config, users, user_i, outcomes, raw_leads,
                   created_leads, session_new, automation_logs, cycles_run>>
    /\ UNCHANGED leadVars
    /\ UNCHANGED nonCycleVars

\* The except block: rollback, then the 'error' AutomationLog row, whose
\* own failure is swallowed.
HandleError ==
    /\ cycle_pc = "handler"
    /\ session_new' = <<>>
    /\ \E logged \in BOOLEAN :
          automation_logs' = IF logged
                             THEN Append(automation_logs, error_log(caught.exc))
                             ELSE automation_logs
    /\ outcomes' = Append(outcomes, "error")
    /\ caught' = NoException
    /\ scoring' = <<>>
    /\ NextUser
    /\ UNCHANGED <<cycle_config, users, raw_leads, created_leads, propagated,
                   cycles_run, last_skipped>>
    /\ outreach' = NoOutreach
    /\ UNCHANGED <<lead_table, emails_sent_count, api_status>>
    /\ UNCHANGED nonCycleVars

NextCycle ==
    \/ StartCycle
    \/ ResolveUsersRaises
    \/ ResolveConfig
    \/ Scrape
    \/ SkipExisting
    \/ AddLead
    \/ PipelineReturn
    \/ RunAiScoring
    \/ RunOutreach
    \/ LogRun
    \/ StepRaises
    \/ HandleError

SpecCycle == InitCycle /\ [][NextCycle]_vars

\* ---------------------------------------------------- claims on the cycle

\* C24: after the scoring step, every lead the tenant's run created, and
\* for which the reasoning service answers with a valid response, has the
\* score the Qualifier makes of that response (clamped to 1..10).
C24_ScoresApplied ==
    \A id \in DOMAIN scoring :
        LET qualified == qualify_lead(FullLeadData, scoring[id].response)
        IN  qualified # NoLead
                => Rows(lead_table)[id].score = qualified.score

C3_UniqueLeadKey ==
    LET rows == Rows(lead_table)
    IN  \A i, j \in DOMAIN rows :
            (i # j /\ rows[i].user_id = rows[j].user_id)
                => ~ (/\ rows[i].platform = rows[j].platform
                      /\ rows[i].external_id = rows[j].external_id)

\* In a later cycle a candidate was skipped because a Lead of the same
\* tenant, committed by an earlier cycle (a run commits only after its
\* loop, and a cycle runs a tenant once), has its (platform, external_id).
C3_Witness ==
    /\ last_skipped # NoSkip
    /\ cycle_pc = "persist"
    /\ last_skipped.cycle = cycles_run
    /\ cycles_run >= 2
    /\ \E i \in last_skipped.rows :
          /\ i \in DOMAIN Rows(lead_table)
          /\ Rows(lead_table)[i].user_id = last_skipped.user_id
          /\ Rows(lead_table)[i].platform = last_skipped.raw.platform
          /\ Rows(lead_table)[i].external_id = last_skipped.raw.external_id

\* Two posts of the Indie Hackers feed in which the adapter found no link:
\* it gives them the site's URL, and the id
\* f"ih_{idx}_{hash(title) % 10000}".
FeedPosts ==
    { RawLeadAt("indiehackers", IHExternalId(0, TitleSaas), UserV, TitleSaas, 0,
                "indiehackers.com"),
      RawLeadAt("indiehackers", IHExternalId(1, TitleBlog), UserU, TitleBlog, 0,
                "indiehackers.com") }

\* The cycle's first run of the pipeline for the first tenant of the list,
\* when the scrape has returned candidates, feed posts among them.
InitPersist ==
    /\ ScraperIdle
    /\ QualifierIdle
    /\ EngineIdle
    /\ cycle_pc = "persist"
    /\ cycle_config \in Configurations
    /\ users \in TenantLists \ {<<>>}
    /\ user_i = 1
    /\ outcomes = <<>>
    /\ raw_leads \in {scrape_all_multilang(found, min_engagement) :
                        found \in SeqsUpTo(ScrapedPosts \cup FeedPosts, MaxFound)}
                     \ {<<>>}
    /\ created_leads = 0
    /\ session_new = <<>>
    /\ automation_logs = <<>>
    /\ propagated = NoException
    /\ cycles_run = 1
    /\ last_skipped = NoSkip
    /\ caught = NoException
    /\ scoring = <<>>
    /\ EmptyStore

\* The persistence loop and the return of the pipeline.
NextPersist ==
    \/ SkipExisting
    \/ AddLead
    \/ PipelineReturn

SpecPersist == InitPersist /\ [][NextPersist]_vars

\* C33: the persistence loop skips a candidate only when a Lead of the
\* tenant, stored or added in this run, has the candidate's platform and
\* external_id; every other candidate becomes a new Lead.
C33_SkippedOnlyForSameKey ==
    (last_skipped # NoSkip /\ cycle_pc = "persist"
        /\ last_skipped.cycle = cycles_run /\ last_skipped.user_id = CycleUser)
        => \E i \in last_skipped.rows :
              /\ SessionRows[i].platform = last_skipped.raw.platform
              /\ SessionRows[i].external_id = last_skipped.raw.external_id

\* ====================================================================
\* The lead status machine: the operations that write Lead.status
\* (automation/outreach_agent.py, routes/api.py) and the transitions the
\* external collaborators drive
\* ====================================================================

Statuses == {"new", "contacted", "replied", "responded", "closing",
             "converted", "archived", "bad_fit"}

TerminalStatuses == {"converted", "archived", "bad_fit"}

\* A stored Lead: created by the pipeline (status 'new'), its score set by
\* the pipeline or the qualifier, its email by the enrichment collaborator.
StoredLead(i, user_id, score, email) ==
    [user_id |-> user_id, platform |-> "reddit", external_id |-> ToStr(i),
     post_url |-> "reddit.com/r/saas/" \o DigitChar(i), status |-> "new",
     score |-> score, email |-> email, email_replied |-> FALSE]

StoredScores == {5, 9}

StoredEmails == {None, "lead@example.com"}

\* The stores the operations start from: the tenants' leads, none sharing
\* a key with another of the same tenant.
StoredTables ==
    {[u \in Tenants |->
         [i \in DOMAIN t[u] |-> StoredLead(i, u, t[u][i][1], t[u][i][2])]] :
        t \in {t \in [Tenants -> SeqsUpTo(StoredScores \X StoredEmails, MaxRows)] :
                  Cardinality(RowIds(t)) \in 1..MaxRows}}

InitLead ==
    /\ ScraperIdle
    /\ QualifierIdle
    /\ CycleIdle
    /\ EngineIdle
    /\ lead_table \in StoredTables
    /\ emails_sent_count = [u \in Tenants |-> 0]
    /\ api_status = 0
    /\ outreach = NoOutreach

\* Everything the status operations leave alone.
nonLeadVars == <<scrapeVars, fanoutVars, qualVars, cycleVars, engineVars>>

\* OutreachAgent.process_outreach_cycle(limit=5).
ProcessOutreachCycle ==
    /\ \E has_qualifier \in BOOLEAN :
       \E run \in OutreachRuns(lead_table, OutreachLimit, has_qualifier) :
          /\ lead_table' = run.table
          /\ outreach' = OutreachRecord("agent", NoTenant, lead_table,
                                        Attempts(run), run.table)
    /\ UNCHANGED <<emails_sent_count, api_status>>
    /\ UNCHANGED nonLeadVars

\* POST /send-email by tenant current_user for lead_id: 404 when the tenant
\* has no such lead, 403 when the plan's emails are used up, 500 when the
\* send fails; when it succeeds the lead becomes 'contacted'.
api_send_email(current_user, lead_id, success) ==
    IF ~ (lead_id \in RowIds(lead_table)
          /\ Rows(lead_table)[lead_id].user_id = current_user)
    THEN /\ api_status' = 404
         /\ outreach' = NoOutreach
         /\ UNCHANGED <<lead_table, emails_sent_count>>
    ELSE IF emails_sent_count[current_user] >= MaxEmails
    THEN /\ api_status' = 403
         /\ outreach' = NoOutreach
         /\ UNCHANGED <<lead_table, emails_sent_count>>
    ELSE IF success
    THEN /\ lead_table' = SetStatus(lead_table, {lead_id}, "contacted")
         /\ emails_sent_count' =
               [emails_sent_count EXCEPT ![current_user] = @ + 1]
         /\ api_status' = 200
         /\ outreach' = OutreachRecord("api", current_user, lead_table,
                  {[id |-> lead_id, phase |-> "manual", outcome |-> "sent"]},
                  SetStatus(lead_table, {lead_id}, "contacted"))
    ELSE /\ api_status' = 500
         /\ outreach' = OutreachRecord("api", current_user, lead_table,
                  {[id |-> lead_id, phase |-> "manual",
                    outcome |-> "send_failed"]},
                  lead_table)
         /\ UNCHANGED <<lead_table, emails_sent_count>>

ApiSendEmail ==
    /\ \E current_user \in Tenants,
          lead_id \in Tenants \X (1..(MaxRows + 1)),
          success \in BOOLEAN :
          api_send_email(current_user, lead_id, success)
    /\ UNCHANGED nonLeadVars

\* The transitions the external collaborators drive: reply detection
\* (contacted to replied or responded), payment (closing to converted),
\* manual archiving or disqualification of a lead that is not terminal.
ExternalTransitions(status) ==
    (IF status = "contacted" THEN {"replied", "responded"} ELSE {})
    \cup (IF status = "closing" THEN {"converted"} ELSE {})
    \cup (IF status \notin TerminalStatuses THEN {"archived", "bad_fit"} ELSE {})

\* should_continue_sequence's STOP_STATUSES.
STOP_STATUSES == {"replied", "converted", "archived", "bad_fit"}

ExternalTransition ==
    /\ \E id \in RowIds(lead_table) :
          \E status \in ExternalTransitions(Rows(lead_table)[id].status) :
              /\ lead_table' = SetStatus(lead_table, {id}, status)
              /\ stop_seen' = IF status \in STOP_STATUSES
                               THEN stop_seen \cup {id} ELSE stop_seen
    /\ outreach' = NoOutreach
    /\ UNCHANGED <<emails_sent_count, api_status, sc_call>>
    /\ UNCHANGED <<scrapeVars, fanoutVars, qualVars, cycleVars, scheduleVars,
                   personalizeVars, fetchVars, batchVars,
                   restVars>>

\* A collaborator writes Lead.email_replied: the reply detection sets it,
\* a correction resets it.
ExternalFieldChange ==
    /\ \E id \in RowIds(lead_table), replied \in BOOLEAN :
          /\ Rows(lead_table)[id].email_replied # replied
          /\ lead_table' = SetReplied(lead_table, {id}, replied)
    /\ outreach' = NoOutreach
    /\ UNCHANGED <<emails_sent_count, api_status>>
    /\ UNCHANGED nonLeadVars

\* should_continue_sequence with the status looked at before email_replied.
should_continue_status_first(table, lead_id, raises) ==
    IF raises
    THEN [continue |-> TRUE, reason |-> "Error checking status (fail-open)"]
    ELSE IF lead_id \notin RowIds(table)
    THEN [continue |-> FALSE, reason |-> "Lead not found"]
    ELSE IF Rows(table)[lead_id].status \in STOP_STATUSES
    THEN [continue |-> FALSE,
          reason |-> "Lead status is " \o Rows(table)[lead_id].status]
    ELSE IF Rows(table)[lead_id].email_replied
    THEN [continue |-> FALSE, reason |-> "Lead replied"]
    ELSE [continue |-> TRUE, reason |-> "Continue"]

\* should_continue_sequence with an except block that answers False.
should_continue_fail_closed(table, lead_id, raises) ==
    IF raises
    THEN [continue |-> FALSE, reason |-> "Error checking status"]
    ELSE should_continue_status_first(table, lead_id, FALSE)

\* FollowUpEngine.should_continue_sequence(lead_id) on the committed rows;
\* raises says that a statement of its try block (the import, the lookup)
\* raised an Exception.
should_continue_sequence(table, lead_id, raises) ==
    IF raises
    THEN [continue |-> TRUE, reason |-> "Error checking status (fail-open)"]
    ELSE IF lead_id \notin RowIds(table)
    THEN [continue |-> FALSE, reason |-> "Lead not found"]
    ELSE IF Rows(table)[lead_id].email_replied
    THEN [continue |-> FALSE, reason |-> "Lead replied"]
    ELSE IF Rows(table)[lead_id].status \in STOP_STATUSES
    THEN [continue |-> FALSE,
          reason |-> "Lead status is " \o Rows(table)[lead_id].status]
    ELSE [continue |-> TRUE, reason |-> "Continue"]

\* A call of should_continue_sequence; sc_call keeps what the call found
\* in the store (the lead's fields at that moment) and whether the lead's
\* status had been a stop status before the call, beside its answer.
ShouldContinueSequence ==
    /\ \E lead_id \in Tenants \X (1..(MaxRows + 1)), raises \in BOOLEAN :
          LET found == lead_id \in RowIds(lead_table)
              answer == should_continue_sequence(lead_table, lead_id, raises)
          IN  sc_call' =
                 [lead_id |-> lead_id, raised |-> raises, found |-> found,
                  stopped |-> lead_id \in stop_seen,
                  email_replied |->
                      IF found THEN Rows(lead_table)[lead_id].email_replied
                      ELSE FALSE,
                  status |->
                      IF found THEN Rows(lead_table)[lead_id].status ELSE None,
                  continue |-> answer.continue, reason |-> answer.reason]
    /\ UNCHANGED stop_seen
    /\ UNCHANGED <<leadVars, scrapeVars, fanoutVars, qualVars, cycleVars,
                   scheduleVars, personalizeVars, fetchVars, batchVars,
                   restVars>>

NextLead ==
    \/ ProcessOutreachCycle
    \/ ApiSendEmail
    \/ ExternalTransition

SpecLead == InitLead /\ [][NextLead]_vars

\* ------------------------------------------- claims on the lead status

\* C4: once a Lead's status is converted, archived or bad_fit, no step
\* changes it to a different value.
C4_TerminalIsFinal ==
    [][\A id \in RowIds(lead_table) :
          lead_table[id[1]][id[2]].status \in TerminalStatuses
              => lead_table'[id[1]][id[2]].status
                    = lead_table[id[1]][id[2]].status]_vars

\* ====================================================================
\* The stop conditions of a follow-up sequence, asked while the status
\* operations run
\* ====================================================================

\* The stores the calls start from: one lead, of either tenant.
ContinueTables == {t \in StoredTables : Cardinality(RowIds(t)) = 1}

InitContinue ==
    /\ ScraperIdle
    /\ QualifierIdle
    /\ CycleIdle
    /\ ContinueIdle
    /\ ScheduleIdle
    /\ PersonalizeIdle
    /\ FetchIdle
    /\ BatchIdle
    /\ RestIdle
    /\ lead_table \in ContinueTables
    /\ emails_sent_count = [u \in Tenants |-> 0]
    /\ api_status = 0
    /\ outreach = NoOutreach

NextContinue ==
    \/ ProcessOutreachCycle
    \/ ApiSendEmail
    \/ ExternalTransition
    \/ ExternalFieldChange
    \/ ShouldContinueSequence

SpecContinue == InitContinue /\ [][NextContinue]_vars

\* --------------------------------------- claims on should_continue_sequence

\* C11: once a lead's status has been replied, converted, archived or
\* bad_fit, every later call of should_continue_sequence for that lead whose
\* evaluation does not fail returns False, whatever became of the lead's
\* fields since.
C11_StopIsMonotonic ==
    (sc_call # NoCall /\ sc_call.stopped /\ ~ sc_call.raised)
        => ~ sc_call.continue

C13_FailOpen ==
    (sc_call # NoCall /\ sc_call.raised) => sc_call.continue

\* The evaluation raised for a lead whose status is a stop status, and the
\* answer was to continue.
C13_Witness ==
    /\ sc_call # NoCall
    /\ sc_call.raised
    /\ sc_call.found
    /\ sc_call.status \in STOP_STATUSES
    /\ sc_call.continue

\* The statuses a lead has only after a reply was detected: 'replied',
\* 'responded' (set by the reply detection), 'closing' (set by
\* _run_auto_closing for a lead that was 'responded').
ReplyDetectedStatuses == {"replied", "responded", "closing"}

\* C39: a call of should_continue_sequence that does not fail answers False
\* for a lead whose status says a reply was detected: replied, responded or
\* closing.
C39_StopsAfterAnyReply ==
    (sc_call # NoCall /\ ~ sc_call.raised /\ sc_call.found
        /\ sc_call.status \in ReplyDetectedStatuses)
        => ~ sc_call.continue

\* ====================================================================
\* FollowUpEngine's schedules: create_follow_up_schedule, the table
\* lead_follow_ups (FOLLOWUP_MODEL_SQL) and get_next_pending_emails.
\* Dates are days counted from 2024-01-01 (day 0), a timedelta of n days
\* adds n.
\* ====================================================================

\* Most steps of a sequence registered beside the built-in ones.
MaxSteps == 3

\* Schedules written to lead_follow_ups.
MaxStored == 2

\* The last day the clock reaches.
MaxDay == 7

\* Largest limit get_next_pending_emails is called with, beside its default.
MaxLimit == 2

\* Leads that schedules are made for.
MaxFollowLeads == 2

DefaultLimit == 50

LeadIds == 1..MaxFollowLeads

\* delay_days of the steps of a registered sequence.
DelayDays == {0, 2, 4}

\* The sequences a caller registers in self.sequences under the name
\* 'custom': steps numbered from 1.
CustomSequences ==
    {[k \in DOMAIN delays |-> FollowUpEmail(k, delays[k])] :
        delays \in SeqsUpTo(DelayDays, MaxSteps) \ {<<>>}}

\* The registered sequence of the end-to-end scenario: delays 0, 2, 4.
SampleSequence == <<FollowUpEmail(1, 0), FollowUpEmail(2, 2), FollowUpEmail(3, 4)>>

\* self.sequences with a sequence registered as 'custom'.
WithCustom(custom) ==
    [name \in DOMAIN DEFAULT_SEQUENCES \cup {"custom"} |->
        IF name = "custom" THEN custom ELSE DEFAULT_SEQUENCES[name]]

\* The names create_follow_up_schedule is called with.
SequenceNames == {"saas_demo", "local_business", "freelance_services",
                  "custom", "unknown"}

\* start_date: None (no day), or a day.
NoStartDate == -1

StartDates == {NoStartDate, 0, 1}

\* The loop of create_follow_up_schedule from step k on.
RECURSIVE ScheduleFrom(_, _, _, _, _)
ScheduleFrom(emails, k, current_date, lead_id, sequence_name) ==
    IF k > Len(emails) THEN <<>>
    ELSE LET scheduled_time == current_date + emails[k].delay_days
         IN  <<[lead_id |-> lead_id, sequence_name |-> sequence_name,
                position |-> emails[k].sequence_position,
                scheduled_for |-> scheduled_time, status |-> "pending"]>>
             \o ScheduleFrom(emails, k + 1, scheduled_time, lead_id, sequence_name)

\* The same loop with every delay counted from the start date.
create_schedule_from_start(lead_id, sequence_name, emails, start) ==
    [k \in DOMAIN emails |->
        [lead_id |-> lead_id, sequence_name |-> sequence_name,
         position |-> emails[k].sequence_position,
         scheduled_for |-> start + emails[k].delay_days, status |-> "pending"]]

\* create_follow_up_schedule for a known sequence (emails are its steps),
\* start being start_date or datetime.utcnow().
create_follow_up_schedule(lead_id, sequence_name, emails, start) ==
    ScheduleFrom(emails, 1, start, lead_id, sequence_name)

\* What a call of create_follow_up_schedule leaves: ValueError for an
\* unknown name, else the schedule.
ScheduleCall(lead_id, sequence_name, start_date) ==
    LET start == IF start_date = NoStartDate THEN now ELSE start_date
    IN  IF sequence_name \notin DOMAIN sequences
        THEN [lead_id |-> lead_id, sequence_name |-> sequence_name,
              start |-> start, raised |-> "ValueError", entries |-> <<>>]
        ELSE [lead_id |-> lead_id, sequence_name |-> sequence_name,
              start |-> start, raised |-> None,
              entries |-> create_follow_up_schedule(
                             lead_id, sequence_name,
                             sequences[sequence_name], start)]

\* A call of create_follow_up_schedule whose result is only looked at.
CreateFollowUpSchedule ==
    /\ \E lead_id \in LeadIds, sequence_name \in SequenceNames,
          start_date \in StartDates :
          schedule' = ScheduleCall(lead_id, sequence_name, start_date)
    /\ UNCHANGED <<sequences, follow_ups, stored_calls, now, due>>
    /\ UNCHANGED <<scrapeVars, fanoutVars, qualVars, cycleVars, leadVars,
                   continueVars, personalizeVars, fetchVars, batchVars,
                   restVars>>

\* An INSERT into a table without the UNIQUE constraint.
insert_unconstrained(table, entry) == Append(table, entry)

\* An INSERT into lead_follow_ups: UNIQUE(lead_id, sequence_name, position)
\* rejects the row when the table has one of the same key.
insert_follow_up(table, entry) ==
    IF \E i \in DOMAIN table :
          /\ table[i].lead_id = entry.lead_id
          /\ table[i].sequence_name = entry.sequence_name
          /\ table[i].position = entry.position
    THEN table
    ELSE Append(table, entry)

RECURSIVE InsertAll(_, _, _)
InsertAll(table, entries, k) ==
    IF k > Len(entries) THEN table
    ELSE InsertAll(insert_follow_up(table, entries[k]), entries, k + 1)

\* The persistence collaborator calls create_follow_up_schedule and
\* writes the schedule to lead_follow_ups, row by row; nothing is written
\* when the call raised.
StoreSchedule ==
    /\ Len(stored_calls) < MaxStored
    /\ \E lead_id \in LeadIds, sequence_name \in SequenceNames,
          start_date \in StartDates :
          LET call == ScheduleCall(lead_id, sequence_name, start_date)
          IN  /\ schedule' = call
              /\ follow_ups' = InsertAll(follow_ups, call.entries, 1)
              /\ stored_calls' =
                    IF call.raised # None THEN stored_calls
                    ELSE Append(stored_calls,
                                [lead_id |-> lead_id,
                                 sequence_name |-> sequence_name,
                                 start |-> call.start])
    /\ due' = NoDue
    /\ UNCHANGED <<sequences, now>>
    /\ UNCHANGED <<scrapeVars, fanoutVars, qualVars, cycleVars, leadVars,
                   continueVars, personalizeVars, fetchVars, batchVars,
                   restVars>>

\* Time passes.
Tick ==
    /\ now < MaxDay
    /\ now' = now + 1
    /\ due' = NoDue
    /\ UNCHANGED <<sequences, schedule, follow_ups, stored_calls>>
    /\ UNCHANGED <<scrapeVars, fanoutVars, qualVars, cycleVars, leadVars,
                   continueVars, personalizeVars, fetchVars, batchVars,
                   restVars>>

\* The WHERE clause without the condition on scheduled_for.
where_pending(table, utcnow) ==
    {i \in DOMAIN table : table[i].status = "pending"}

\* WHERE status = 'pending' AND scheduled_for <= :now
where_pending_and_due(table, utcnow) ==
    {i \in DOMAIN table :
        table[i].status = "pending" /\ table[i].scheduled_for <= utcnow}

\* ORDER BY scheduled_for ASC: the orders the store can give the selected
\* rows (rows of equal scheduled_for in any order).
RECURSIVE OrderByScheduledFor(_, _)
OrderByScheduledFor(table, ids) ==
    IF ids = {} THEN {<<>>}
    ELSE UNION {{<<i>> \o rest : rest \in OrderByScheduledFor(table, ids \ {i})} :
                  i \in {i \in ids : \A j \in ids :
                            table[i].scheduled_for <= table[j].scheduled_for}}

\* The row ids get_next_pending_emails can return when its query succeeds.
get_next_pending_emails(table, utcnow, limit) ==
    {SubSeq(order, 1, Min(limit, Len(order))) :
        order \in OrderByScheduledFor(table, where_pending_and_due(table, utcnow))}

\* A call of get_next_pending_emails; raises says that the import or the
\* query raised, and the call then returns [].
GetNextPendingEmails ==
    /\ \E limit \in (1..MaxLimit) \cup {DefaultLimit}, raises \in BOOLEAN :
          \E rows \in IF raises THEN {<<>>}
                      ELSE get_next_pending_emails(follow_ups, now, limit) :
              due' = [limit |-> limit, raised |-> raises, rows |-> rows]
    /\ UNCHANGED <<sequences, schedule, follow_ups, stored_calls, now>>
    /\ UNCHANGED <<scrapeVars, fanoutVars, qualVars, cycleVars, leadVars,
                   continueVars, personalizeVars, fetchVars, batchVars,
                   restVars>>

\* The dispatch collaborator sends the entries it was given and marks
\* them as sent.
Dispatch ==
    /\ due # NoDue
    /\ due.rows # <<>>
    /\ follow_ups' = [i \in DOMAIN follow_ups |->
                         IF i \in Range(due.rows)
                         THEN [follow_ups[i] EXCEPT !.status = "sent"]
                         ELSE follow_ups[i]]
    /\ due' = NoDue
    /\ UNCHANGED <<sequences, schedule, stored_calls, now>>
    /\ UNCHANGED <<scrapeVars, fanoutVars, qualVars, cycleVars, leadVars,
                   continueVars, personalizeVars, fetchVars, batchVars,
                   restVars>>

\* Schedules are made and looked at, for the built-in sequences and any
\* registered one.
InitSchedule ==
    /\ ScraperIdle
    /\ QualifierIdle
    /\ CycleIdle
    /\ EmptyStore
    /\ ContinueIdle
    /\ PersonalizeIdle
    /\ FetchIdle
    /\ BatchIdle
    /\ RestIdle
    /\ sequences \in {DEFAULT_SEQUENCES}
                       \cup {WithCustom(custom) : custom \in CustomSequences}
    /\ schedule = NoSchedule
    /\ follow_ups = <<>>
    /\ stored_calls = <<>>
    /\ now = 0
    /\ due = NoDue

NextSchedule ==
    \/ CreateFollowUpSchedule
    \/ Tick

SpecSchedule == InitSchedule /\ [][NextSchedule]_vars

InitFollowUp ==
    /\ ScraperIdle
    /\ QualifierIdle
    /\ CycleIdle
    /\ EmptyStore
    /\ ContinueIdle
    /\ PersonalizeIdle
    /\ FetchIdle
    /\ BatchIdle
    /\ RestIdle
    /\ sequences \in {DEFAULT_SEQUENCES, WithCustom(SampleSequence)}
    /\ schedule = NoSchedule
    /\ follow_ups = <<>>
    /\ stored_calls = <<>>
    /\ now = 0
    /\ due = NoDue

NextFollowUp ==
    \/ StoreSchedule
    \/ Tick
    \/ GetNextPendingEmails
    \/ Dispatch

SpecFollowUp == InitFollowUp /\ [][NextFollowUp]_vars

\* ------------------------------------------------ claims on the schedules

RECURSIVE SumOfDelays(_, _)
SumOfDelays(emails, k) ==
    IF k = 0 THEN 0 ELSE SumOfDelays(emails, k - 1) + emails[k].delay_days

\* C15: a schedule has exactly one entry per step of the sequence, in step
\* order, each pending, and the k-th entry is scheduled for the start date
\* plus the delays of the steps 1..k.
C15_CumulativeSchedule ==
    (schedule # NoSchedule /\ schedule.raised = None)
        => LET emails == sequences[schedule.sequence_name]
               entries == schedule.entries
           IN  /\ Len(entries) = Len(emails)
               /\ \A k \in DOMAIN emails :
                     /\ entries[k].status = "pending"
                     /\ entries[k].lead_id = schedule.lead_id
                     /\ entries[k].sequence_name = schedule.sequence_name
                     /\ entries[k].position = emails[k].sequence_position
                     /\ entries[k].scheduled_for
                           = schedule.start + SumOfDelays(emails, k)

\* Delays 0, 2, 4 from 2024-01-01 (day 0): 2024-01-01, 2024-01-03 and
\* 2024-01-07 (days 0, 2, 6).
C15_Witness ==
    /\ schedule # NoSchedule
    /\ schedule.raised = None
    /\ schedule.sequence_name = "custom"
    /\ sequences[schedule.sequence_name] = SampleSequence
    /\ schedule.start = 0
    /\ [k \in DOMAIN schedule.entries |-> schedule.entries[k].scheduled_for]
          = <<0, 2, 6>>

\* The rows that are pending and due now.
DueNow ==
    {i \in DOMAIN follow_ups :
        follow_ups[i].status = "pending" /\ follow_ups[i].scheduled_for <= now}

\* The rows returned are pending and due, no row twice, earliest first, at
\* most limit of them.
DueOrderedCapped ==
    /\ \A k \in DOMAIN due.rows : due.rows[k] \in DueNow
    /\ \A a, b \in DOMAIN due.rows :
          a < b => /\ due.rows[a] # due.rows[b]
                   /\ follow_ups[due.rows[a]].scheduled_for
                         <= follow_ups[due.rows[b]].scheduled_for
    /\ Len(due.rows) <= due.limit

\* When more than limit rows are due, the rows returned are limit rows and
\* no row left out is earlier than a row returned.
LimitEarliest ==
    Cardinality(DueNow) > due.limit
        => /\ Len(due.rows) = due.limit
           /\ \A i \in DueNow \ Range(due.rows) :
                 \A k \in DOMAIN due.rows :
                     follow_ups[due.rows[k]].scheduled_for
                         <= follow_ups[i].scheduled_for

ReplacementKeys ==
    <<"name", "platform", "topic", "problem_summary", "industry",
      "business_name", "location", "sender_name", "profession",
      "tip_1", "tip_2", "tip_3">>

KeyChars ==
    [name |-> <<"n", "a", "m", "e">>,
     platform |-> <<"p", "l", "a", "t", "f", "o", "r", "m">>,
     topic |-> <<"t", "o", "p", "i", "c">>,
     problem_summary |-> <<"p", "r", "o", "b", "l", "e", "m", "_", "s", "u", "m", "m", "a", "r", "y">>,
     industry |-> <<"i", "n", "d", "u", "s", "t", "r", "y">>,
     business_name |-> <<"b", "u", "s", "i", "n", "e", "s", "s", "_", "n", "a", "m", "e">>,
     location |-> <<"l", "o", "c", "a", "t", "i", "o", "n">>,
     sender_name |-> <<"s", "e", "n", "d", "e", "r", "_", "n", "a", "m", "e">>,
     profession |-> <<"p", "r", "o", "f", "e", "s", "s", "i", "o", "n">>,
     tip_1 |-> <<"t", "i", "p", "_", "1">>,
     tip_2 |-> <<"t", "i", "p", "_", "2">>,
     tip_3 |-> <<"t", "i", "p", "_", "3">>]

\* '{' + key + '}'
Placeholder(key) == <<"{">> \o KeyChars[key] \o <<"}">>

\* str.replace(old, new): every occurrence, left to right, the text put in
\* is not searched again.
\* The places at or after from where old occurs in text.
Occurrences(text, old, from) ==
    {i \in from..(Len(text) - Len(old) + 1) :
        SubSeq(text, i, i + Len(old) - 1) = old}

RECURSIVE ReplaceAfter(_, _, _, _)
ReplaceAfter(text, old, new, from) ==
    LET found == Occurrences(text, old, from)
    IN  IF found = {} THEN SubSeq(text, from, Len(text))
        ELSE LET i == CHOOSE i \in found : \A j \in found : i <= j
             IN  SubSeq(text, from, i - 1) \o new
                    \o ReplaceAfter(text, old, new, i + Len(old))

Replace(text, old, new) == ReplaceAfter(text, old, new, 1)

\* dict.get(key, default)
Get(dict, key, default) == IF key \in DOMAIN dict THEN dict[key] ELSE default

\* lead_data.get('title', '')[:50]
TopicLen == 50

\* The replacements dict of personalize_email; an empty text is falsy.
replacements(lead_data, sender_data) ==
    [name |-> IF Get(lead_data, "name", <<>>) # <<>> THEN lead_data["name"]
              ELSE Get(lead_data, "username", <<"t", "h", "e", "r", "e">>),
     platform |-> Get(lead_data, "platform", <<"t", "h", "e", " ", "i", "n", "t", "e", "r", "n", "e", "t">>),
     topic |-> IF Get(lead_data, "title", <<>>) # <<>>
               THEN Prefix(lead_data["title"], TopicLen) \o <<".", ".", ".">>
               ELSE <<"y", "o", "u", "r", " ", "r", "e", "c", "e", "n", "t", " ", "p", "o", "s", "t">>,
     problem_summary |-> Get(lead_data, "problem_summary", <<"t", "h", "e", " ", "c", "h", "a", "l", "l", "e", "n", "g", "e", " ", "y", "o", "u", " ", "m", "e", "n", "t", "i", "o", "n", "e", "d">>),
     industry |-> Get(lead_data, "industry", <<"y", "o", "u", "r", " ", "i", "n", "d", "u", "s", "t", "r", "y">>),
     business_name |-> Get(lead_data, "business_name", <<"y", "o", "u", "r", " ", "b", "u", "s", "i", "n", "e", "s", "s">>),
     location |-> Get(lead_data, "location", <<"y", "o", "u", "r", " ", "a", "r", "e", "a">>),
     sender_name |-> Get(sender_data, "name", <<"Y", "o", "u", "r", " ", "N", "a", "m", "e">>),
     profession |-> Get(sender_data, "profession", <<"p", "r", "o", "f", "e", "s", "s", "i", "o", "n", "a", "l">>),
     tip_1 |-> <<"A", "u", "t", "o", "m", "a", "t", "e", " ", "y", "o", "u", "r", " ", "o", "u", "t", "r", "e", "a", "c", "h">>,
     tip_2 |-> <<"U", "s", "e", " ", "d", "a", "t", "a", "-", "d", "r", "i", "v", "e", "n", " ", "t", "a", "r", "g", "e", "t", "i", "n", "g">>,
     tip_3 |-> <<"F", "o", "l", "l", "o", "w", " ", "u", "p", " ", "c", "o", "n", "s", "i", "s", "t", "e", "n", "t", "l", "y">>]

\* The loop over replacements.items() from the k-th key on.
RECURSIVE ReplaceFrom(_, _, _)
ReplaceFrom(result, values, k) ==
    IF k > Len(ReplacementKeys) THEN result
    ELSE ReplaceFrom(Replace(result, Placeholder(ReplacementKeys[k]),
                             values[ReplacementKeys[k]]),
                     values, k + 1)

personalize_email(template, lead_data, sender_data) ==
    ReplaceFrom(template, replacements(lead_data, sender_data), 1)

\* A template with these placeholders, in this order; the text between
\* two placeholders, which has no brace in any built-in template, is a
\* space.
RECURSIVE TemplateOf(_)
TemplateOf(placeholders) ==
    IF placeholders = <<>> THEN <<>>
    ELSE Placeholder(Head(placeholders)) \o <<" ">> \o TemplateOf(Tail(placeholders))

\* The placeholders of the subject and body templates of DEFAULT_SEQUENCES
\* (templates with the same placeholders in the same order are one).
BuiltInTemplates ==
    {<<"platform", "topic">>,
     <<"name", "platform", "problem_summary", "industry", "sender_name">>,
     <<"topic">>,
     <<"name", "problem_summary", "sender_name">>,
     <<"name", "platform", "industry", "problem_summary", "sender_name">>,
     <<"business_name">>,
     <<"name", "business_name", "sender_name">>,
     <<"name", "location", "sender_name">>,
     <<"name", "platform", "problem_summary", "profession", "sender_name">>,
     <<"name", "problem_summary", "tip_1", "tip_2", "tip_3", "sender_name">>}

\* The templates personalize_email is called with: the built-in ones, one
\* without placeholder, and one per recognized placeholder.
Templates ==
    {TemplateOf(t) : t \in BuiltInTemplates}
        \cup {<<>>}
        \cup {Placeholder(ReplacementKeys[k]) : k \in DOMAIN ReplacementKeys}

\* The values of the fields of lead_data when present.  The title, the
\* name and the summary are text of the scraped post and of its author.
LeadValues ==
    [name |-> {<<"A", "n", "n">>, <<>>},
     username |-> {<<"b", "o", "b", "4", "2">>},
     platform |-> {<<"r", "e", "d", "d", "i", "t">>},
     title |-> {<<"N", "e", "e", "d", " ", "a", " ", "C", "R", "M">>, <<>>, Placeholder("name")},
     problem_summary |-> {<<"s", "l", "o", "w", " ", "s", "a", "l", "e", "s">>},
     industry |-> {<<"r", "e", "t", "a", "i", "l">>},
     business_name |-> {<<"A", "c", "m", "e">>},
     location |-> {<<"V", "i", "g", "o">>}]

SenderValues ==
    [name |-> {<<"E", "v", "a">>}, profession |-> {<<"d", "e", "s", "i", "g", "n", "e", "r">>}]

\* The dicts over these fields: any set of fields missing, the name and
\* the title any of their values.
Dicts(values, names, titles) ==
    {[k \in present |->
         IF k = "name" THEN name
         ELSE IF k = "title" THEN title
         ELSE CHOOSE v \in values[k] : TRUE] :
        present \in SUBSET DOMAIN values, name \in names, title \in titles}

InitPersonalize ==
    /\ ScraperIdle
    /\ QualifierIdle
    /\ CycleIdle
    /\ EmptyStore
    /\ ContinueIdle
    /\ ScheduleIdle
    /\ FetchIdle
    /\ BatchIdle
    /\ RestIdle
    /\ pe_lead_data \in Dicts(LeadValues, LeadValues.name, LeadValues.title)
    /\ pe_sender_data \in Dicts(SenderValues, SenderValues.name, {<<>>})
    /\ pe_result = NoResult

PersonalizeEmail ==
    /\ pe_result = NoResult
    /\ \E template \in Templates :
          pe_result' = [template |-> template,
                        text |-> personalize_email(template, pe_lead_data,
                                                   pe_sender_data)]
    /\ UNCHANGED <<pe_lead_data, pe_sender_data>>
    /\ UNCHANGED <<scrapeVars, fanoutVars, qualVars, cycleVars, leadVars,
                   continueVars, scheduleVars, fetchVars, batchVars,
                   restVars>>

NextPersonalize == PersonalizeEmail

SpecPersonalize == InitPersonalize /\ [][NextPersonalize]_vars

\* ------------------------------------------- claims on personalize_email

\* The text has a literal '{key}' of a recognized key.
HasPlaceholder(text) ==
    \E k \in DOMAIN ReplacementKeys : Contains(text, Placeholder(ReplacementKeys[k]))

\* No value of the dicts has a brace.
PlainValues ==
    /\ \A k \in DOMAIN pe_lead_data : "{" \notin Range(pe_lead_data[k])
    /\ \A k \in DOMAIN pe_sender_data : "{" \notin Range(pe_sender_data[k])

\* C16: for any template with recognized placeholders only and any
\* lead_data and sender_data, whatever fields are missing, the text
\* personalize_email returns has no literal placeholder.
C16_NoLiteralPlaceholder ==
    pe_result # NoResult => ~ HasPlaceholder(pe_result.text)

\* The same for dicts whose values have no brace.
PersonalizesPlainValues ==
    (pe_result # NoResult /\ PlainValues) => ~ HasPlaceholder(pe_result.text)

\* ====================================================================
\* polite_get: one GET, then the polite delay.  Times are whole seconds.
\* ====================================================================

\* Calls of polite_get, one after another.
MaxFetches == 3

\* The (min_sleep, max_sleep) the adapters call polite_get with: the
\* defaults (Reddit), 2 and 5 (Hacker News), 3 and 6 (Indie Hackers).
Delays ==
    {[min_sleep |-> DefaultMinSleep, max_sleep |-> DefaultMaxSleep],
     [min_sleep |-> 2, max_sleep |-> 5],
     [min_sleep |-> 3, max_sleep |-> 6]}

InitFetch ==
    /\ ScraperIdle
    /\ QualifierIdle
    /\ CycleIdle
    /\ EmptyStore
    /\ ContinueIdle
    /\ ScheduleIdle
    /\ PersonalizeIdle
    /\ BatchIdle
    /\ RestIdle
    /\ fetch_pc = "idle"
    /\ fetch_delays \in Delays
    /\ fetch_log = <<>>

nonFetchVars == <<scrapeVars, fanoutVars, qualVars, cycleVars, leadVars,
                  continueVars, scheduleVars, personalizeVars, batchVars,
                  restVars>>

\* The call returns: its outcome and the delay it slept, if it slept.
Returned(outcome, slept, sleep_time) ==
    /\ fetch_log' = Append(fetch_log, [outcome |-> outcome, slept |-> slept,
                                       sleep_time |-> sleep_time])
    /\ fetch_pc' = "idle"
    /\ UNCHANGED fetch_delays
    /\ UNCHANGED nonFetchVars

\* polite_get is called: requests.get is under way.
PoliteGet ==
    /\ fetch_pc = "idle"
    /\ Len(fetch_log) < MaxFetches
    /\ fetch_pc' = "get"
    /\ UNCHANGED <<fetch_delays, fetch_log>>
    /\ UNCHANGED nonFetchVars

\* requests.get answered and raise_for_status passed: the delay follows.
GetSucceeds ==
    /\ fetch_pc = "get"
    /\ fetch_pc' = "sleep"
    /\ UNCHANGED <<fetch_delays, fetch_log>>
    /\ UNCHANGED nonFetchVars

\* except requests.exceptions.Timeout: return None
GetTimesOut ==
    /\ fetch_pc = "get"
    /\ Returned("Timeout", FALSE, 0)

\* except requests.exceptions.HTTPError: return None
GetHTTPError ==
    /\ fetch_pc = "get"
    /\ Returned("HTTPError", FALSE, 0)

\* except Exception (a connection error and the like): return None
GetOtherError ==
    /\ fetch_pc = "get"
    /\ Returned("Exception", FALSE, 0)

\* time.sleep(random.uniform(min_sleep, max_sleep)); return resp
PoliteDelay ==
    /\ fetch_pc = "sleep"
    /\ \E sleep_time \in fetch_delays.min_sleep..fetch_delays.max_sleep :
          Returned("ok", TRUE, sleep_time)

NextFetch ==
    \/ PoliteGet
    \/ GetSucceeds
    \/ GetTimesOut
    \/ GetHTTPError
    \/ GetOtherError
    \/ PoliteDelay

SpecFetch == InitFetch /\ [][NextFetch]_vars

\* ------------------------------------------------- claims on polite_get

\* C17: every call of polite_get that returned without a timeout, whether
\* the GET succeeded or ended in an HTTP-status error or another error,
\* slept a delay within [min_sleep, max_sleep] before it returned.
C17_SleepsAfterEveryCall ==
    \A k \in DOMAIN fetch_log :
        fetch_log[k].outcome # "Timeout"
            => /\ fetch_log[k].slept
               /\ fetch_log[k].sleep_time >= fetch_delays.min_sleep
               /\ fetch_log[k].sleep_time <= fetch_delays.max_sleep

\* The same for the calls whose GET succeeded.
SleepsAfterSuccess ==
    \A k \in DOMAIN fetch_log :
        fetch_log[k].outcome = "ok"
            => /\ fetch_log[k].slept
               /\ fetch_log[k].sleep_time >= fetch_delays.min_sleep
               /\ fetch_log[k].sleep_time <= fetch_delays.max_sleep

\* ---------------------------------------------- claims on the cycle's log

\* The statuses of the AutomationLog rows of this cycle, in order.
LogStatuses == [k \in DOMAIN automation_logs |-> automation_logs[k].status]

\* logged is what is left of ended when some of its 'error' entries are
\* taken out.
RECURSIVE DropsOnlyErrors(_, _)
DropsOnlyErrors(logged, ended) ==
    IF ended = <<>> THEN logged = <<>>
    ELSE \/ /\ logged # <<>>
            /\ Head(logged) = Head(ended)
            /\ DropsOnlyErrors(Tail(logged), Tail(ended))
         \/ /\ Head(ended) = "error"
            /\ DropsOnlyErrors(logged, Tail(ended))

\* An 'error' row carries the text of an exception, cut at 500 characters;
\* no other row carries one.
MessagesOnErrors ==
    \A k \in DOMAIN automation_logs :
        IF automation_logs[k].status = "error"
        THEN /\ automation_logs[k].error_message # NoMessage
             /\ automation_logs[k].error_message.of \in Exceptions
             /\ automation_logs[k].error_message.length
                   = Min(StrLen[automation_logs[k].error_message.of], 500)
        ELSE automation_logs[k].error_message = NoMessage

MaxBatch == 3

\* A max_to_process shorter than the longest list.
MaxToProcess == 2

\* The candidate's QualifiedLead; id tells the candidates apart.
Qualified(id, score, urgency) ==
    [kind |-> "lead", id |-> id, score |-> score, urgency |-> urgency]

\* qualify_lead returns None; qualify_lead raises (KeyError on a candidate
\* without post_url).
ReturnsNone == [kind |-> "none"]
Raises == [kind |-> "raises"]

BatchScores == {4, 5, 7}

BatchUrgencies == {3, 8}

\* The lists of candidates.
Batches ==
    UNION {{[k \in 1..n |-> IF q[k].kind = "lead"
                            THEN Qualified(k, q[k].score, q[k].urgency)
                            ELSE q[k]] :
              q \in [1..n -> {Qualified(0, sc, u) : sc \in BatchScores,
                                                    u \in BatchUrgencies}
                                \cup {ReturnsNone, Raises}]} :
             n \in 0..MaxBatch}

\* The key of the sort, compared as tuples: (x.score, x.urgency).
KeyLess(x, y) ==
    \/ x.score < y.score
    \/ x.score = y.score /\ x.urgency < y.urgency

\* list.sort(key=..., reverse=True) is stable: x goes behind every element
\* whose key is not less than its own.
InsertByKey(sorted, x) ==
    LET behind == {k \in DOMAIN sorted : ~ KeyLess(sorted[k], x)}
        n == Cardinality(behind)
    IN  SubSeq(sorted, 1, n) \o <<x>> \o SubSeq(sorted, n + 1, Len(sorted))

RECURSIVE SortByKey(_, _, _)
SortByKey(list, k, sorted) ==
    IF k > Len(list) THEN sorted
    ELSE SortByKey(list, k + 1, InsertByKey(sorted, list[k]))

\* A threshold that a score has to exceed.
exceeds_min_score(score, min_score) == score > min_score

\* qualified_lead.score >= min_score
meets_min_score(score, min_score) == score >= min_score

InitBatch ==
    /\ ScraperIdle
    /\ QualifierIdle
    /\ CycleIdle
    /\ EmptyStore
    /\ ContinueIdle
    /\ ScheduleIdle
    /\ PersonalizeIdle
    /\ FetchIdle
    /\ RestIdle
    /\ b_pc = "idle"
    /\ b_leads \in Batches
    /\ b_min_score \in {DefaultMinScore, 7}
    /\ b_max_to_process \in {DefaultMaxToProcess, MaxToProcess}
    /\ b_i = 1
    /\ b_qualified = <<>>

nonBatchVars == <<scrapeVars, fanoutVars, qualVars, cycleVars, leadVars,
                  continueVars, scheduleVars, personalizeVars, fetchVars,
                  restVars>>

\* leads[:max_to_process]
Processed == Prefix(b_leads, b_max_to_process)

\* qualify_batch is called.
QualifyBatch ==
    /\ b_pc = "idle"
    /\ b_pc' = "loop"
    /\ UNCHANGED <<b_leads, b_min_score, b_max_to_process, b_i, b_qualified>>
    /\ UNCHANGED nonBatchVars

\* One turn of the loop: the candidate's QualifiedLead is kept when its
\* score meets min_score; a None is passed over.
QualifyNext ==
    /\ b_pc = "loop"
    /\ b_i <= Len(Processed)
    /\ Processed[b_i].kind # "raises"
    /\ b_qualified' =
          IF /\ Processed[b_i].kind = "lead"
             /\ meets_min_score(Processed[b_i].score, b_min_score)
          THEN Append(b_qualified, Processed[b_i])
          ELSE b_qualified
    /\ b_i' = b_i + 1
    /\ UNCHANGED <<b_pc, b_leads, b_min_score, b_max_to_process>>
    /\ UNCHANGED nonBatchVars

\* qualify_lead raises: nothing in qualify_batch catches it.
QualifyRaises ==
    /\ b_pc = "loop"
    /\ b_i <= Len(Processed)
    /\ Processed[b_i].kind = "raises"
    /\ b_pc' = "raised"
    /\ UNCHANGED <<b_leads, b_min_score, b_max_to_process, b_i, b_qualified>>
    /\ UNCHANGED nonBatchVars

\* After the loop: the sort, and the return.
BatchReturns ==
    /\ b_pc = "loop"
    /\ b_i > Len(Processed)
    /\ b_qualified' = SortByKey(b_qualified, 1, <<>>)
    /\ b_pc' = "returned"
    /\ UNCHANGED <<b_leads, b_min_score, b_max_to_process, b_i>>
    /\ UNCHANGED nonBatchVars

NextBatch ==
    \/ QualifyBatch
    \/ QualifyNext
    \/ QualifyRaises
    \/ BatchReturns

SpecBatch == InitBatch /\ [][NextBatch]_vars

\* ------------------------------------------------ claims on qualify_batch

\* C19: what qualify_batch returns is exactly the QualifiedLeads of the
\* processed candidates whose score is at least min_score, each once (a
\* None being left out), by score descending and, for equal scores, by
\* urgency descending.
C19_BatchFilteredAndSorted ==
    b_pc = "returned"
        => /\ Range(b_qualified)
                 = {b_leads[k] : k \in {k \in DOMAIN b_leads :
                                          /\ k <= b_max_to_process
                                          /\ b_leads[k].kind = "lead"
                                          /\ b_leads[k].score >= b_min_score}}
           /\ \A a, b \in DOMAIN b_qualified :
                 a < b => /\ b_qualified[a] # b_qualified[b]
                          /\ \/ b_qualified[a].score > b_qualified[b].score
                             \/ /\ b_qualified[a].score = b_qualified[b].score
                                /\ b_qualified[a].urgency >= b_qualified[b].urgency

\* A batch returned two leads of a score equal to min_score, the more
\* urgent one, which came later, first, and left out the candidate for
\* which qualify_lead returned None.
C19_Witness ==
    /\ b_pc = "returned"
    /\ Len(b_qualified) = 2
    /\ b_qualified[1].score = b_min_score
    /\ b_qualified[2].score = b_min_score
    /\ b_qualified[1].urgency > b_qualified[2].urgency
    /\ b_qualified[1].id > b_qualified[2].id
    /\ \E k \in DOMAIN b_leads : b_leads[k] = ReturnsNone

\* ====================================================================
\* The adapters' listing parsers: scrape_subreddit_search, scrape_show_hn,
\* scrape_ask_hn, scrape_feed (automation/scraper.py)
\* ====================================================================

\* Entries of one listing.
MaxItems == 3

Parsers == {"scrape_subreddit_search", "scrape_show_hn", "scrape_ask_hn",
            "scrape_feed"}

\* The parsers whose loop body is a try block of its own (except
\* Exception: continue).
ParsersWithItemTry == {"scrape_show_hn", "scrape_ask_hn", "scrape_feed"}

\* The parsers that pass over an entry holding nothing: `if not post:
\* continue` (a wrapper without data), `if not title: continue`.
ParsersWithEmptyCheck == {"scrape_subreddit_search", "scrape_feed"}

\* What an entry does to the statements that read it: "ok" parses; "empty"
\* has nothing to read; "malformed" makes a statement of the loop body raise
\* (a null selftext under [:2000], a score text that int() rejects).
ItemKinds(adapter) ==
    IF adapter \in ParsersWithEmptyCheck
    THEN {"ok", "empty", "malformed"}
    ELSE {"ok", "malformed"}

Listings(adapter) == UNION {[1..n -> ItemKinds(adapter)] : n \in 0..MaxItems}

\* The loop body of the parser is inside a try block of its own.
has_item_try(adapter) == adapter \in ParsersWithItemTry

InitListing ==
    /\ ScraperIdle
    /\ QualifierIdle
    /\ CycleIdle
    /\ EmptyStore
    /\ ContinueIdle
    /\ ScheduleIdle
    /\ PersonalizeIdle
    /\ FetchIdle
    /\ BatchIdle
    /\ RaceIdle
    /\ DispatchIdle
    /\ LoopIdle
    /\ DedupIdle
    /\ l_pc = "called"
    /\ l_adapter \in Parsers
    /\ l_items \in Listings(l_adapter)
    /\ l_i = 1
    /\ l_results = <<>>
    /\ l_outcome = None

nonListingVars == <<scrapeVars, fanoutVars, qualVars, cycleVars, leadVars,
                    continueVars, scheduleVars, personalizeVars, fetchVars,
                    batchVars, dedupVars,
                  loopVars,
                  dispatchVars,
                  raceVars>>

\* The call returns `results` with the given outcome.
ListingReturn(results, outcome) ==
    /\ l_pc' = "returned"
    /\ l_results' = results
    /\ l_outcome' = outcome
    /\ UNCHANGED <<l_adapter, l_items, l_i>>
    /\ UNCHANGED nonListingVars

\* polite_get returned None: `if not resp: return []`.
ListingNotFetched ==
    /\ l_pc = "called"
    /\ ListingReturn(<<>>, "no_response")

\* resp.json() or BeautifulSoup raises: the outer except returns [].
ListingUnreadable ==
    /\ l_pc = "called"
    /\ ListingReturn(<<>>, "unreadable")

\* The body was read and the loop over its entries starts.
ListingRead ==
    /\ l_pc = "called"
    /\ l_pc' = "loop"
    /\ UNCHANGED <<l_adapter, l_items, l_i, l_results, l_outcome>>
    /\ UNCHANGED nonListingVars

\* One turn of the loop: results.append({...}).
ItemParsed ==
    /\ l_pc = "loop"
    /\ l_i <= Len(l_items)
    /\ l_items[l_i] = "ok"
    /\ l_results' = Append(l_results, l_i)
    /\ l_i' = l_i + 1
    /\ UNCHANGED <<l_pc, l_adapter, l_items, l_outcome>>
    /\ UNCHANGED nonListingVars

\* One turn of the loop: continue, for an entry with nothing to read.
ItemEmpty ==
    /\ l_pc = "loop"
    /\ l_i <= Len(l_items)
    /\ l_items[l_i] = "empty"
    /\ l_i' = l_i + 1
    /\ UNCHANGED <<l_pc, l_adapter, l_items, l_results, l_outcome>>
    /\ UNCHANGED nonListingVars

\* One turn of the loop raises inside the entry's own try block: except
\* Exception: continue.
ItemSkipped ==
    /\ l_pc = "loop"
    /\ l_i <= Len(l_items)
    /\ l_items[l_i] = "malformed"
    /\ has_item_try(l_adapter)
    /\ l_i' = l_i + 1
    /\ UNCHANGED <<l_pc, l_adapter, l_items, l_results, l_outcome>>
    /\ UNCHANGED nonListingVars

\* One turn of the loop raises and no try block surrounds the loop body:
\* the outer except returns [].
ItemAbortsListing ==
    /\ l_pc = "loop"
    /\ l_i <= Len(l_items)
    /\ l_items[l_i] = "malformed"
    /\ ~ has_item_try(l_adapter)
    /\ ListingReturn(<<>>, "item_error")

\* The loop ends: return results.
ListingDone ==
    /\ l_pc = "loop"
    /\ l_i > Len(l_items)
    /\ ListingReturn(l_results, "ok")

NextListing ==
    \/ ListingNotFetched
    \/ ListingUnreadable
    \/ ListingRead
    \/ ItemParsed
    \/ ItemEmpty
    \/ ItemSkipped
    \/ ItemAbortsListing
    \/ ListingDone

SpecListing == InitListing /\ [][NextListing]_vars

\* ------------------------------------------- claims on the listing parsers

\* The entries of the listing that parse, in order.
ParsableItems ==
    SelectSeq([i \in DOMAIN l_items |-> i], LAMBDA i : l_items[i] = "ok")

\* C28: whichever parser read the listing, what it returns is every entry
\* that parses, in order: an entry that fails to parse is left out and
\* takes no other entry with it.
C28_BadEntrySkipped ==
    (l_pc = "returned" /\ l_outcome \notin {"no_response", "unreadable"})
        => l_results = ParsableItems

\* The same for the parsers of Hacker News and Indie Hackers.
FeedParsersSkipBadEntry ==
    (l_pc = "returned" /\ l_outcome \notin {"no_response", "unreadable"}
        /\ l_adapter \in ParsersWithItemTry)
        => l_results = ParsableItems

\* A feed parser left a malformed entry out and returned the two around it.
FeedParsers_Witness ==
    /\ l_pc = "returned"
    /\ l_adapter = "scrape_show_hn"
    /\ l_items = <<"ok", "malformed", "ok">>
    /\ l_results = <<1, 3>>

\* ------------------------------------------- the outreach step's claims

\* The last step was a run of process_outreach_cycle, by the cycle or alone.
OutreachRan == outreach # NoOutreach /\ outreach.by \in {"cycle", "agent"}

\* The messages the last outreach operation dispatched: the attempts whose
\* send_smtp_email call reported success.
Dispatches ==
    IF outreach = NoOutreach THEN {}
    ELSE {a \in outreach.attempts : a.outcome = "sent"}

\* C22: in a cycle in which outreach is enabled, every tenant whose earlier
\* steps completed has had the outreach step run for it when its run is
\* logged, whether or not the pipeline created a lead for it.
C22_OutreachRunForEachTenant ==
    (cycle_pc = "log" /\ cycle_config.outreach)
        => (OutreachRan /\ outreach.user = CycleUser)

\* C25: no operation dispatches an outreach message to a lead whose status
\* is converted, archived or bad_fit.
C25_NoDispatchToTerminal ==
    \A a \in Dispatches :
        Rows(outreach.before)[a.id].status \notin TerminalStatuses

OutreachStore ==
    [u \in Tenants |->
        IF u = 1
        THEN [i \in 1..3 |-> StoredLead(i, 1, InitialOutreachScore,
                                        "lead@example.com")]
        ELSE IF u = 2
        THEN [i \in 1..3 |->
                 [StoredLead(i, 2, 5, "lead@example.com")
                     EXCEPT !.status = "responded"]]
        ELSE <<>>]

\* The store after the pipeline created one lead for tenant u.
WithCreatedLead(table, u) ==
    [table EXCEPT ![u] = Append(@, StoredLead(Len(@) + 1, u, 5, None))]

\* The cycle after the pipeline created one lead for the first tenant of
\* the list, on the store earlier cycles filled: outreach is enabled and
\* OPENAI_API_KEY is set, so the scoring step comes next.
InitOutreach ==
    /\ ScraperIdle
    /\ QualifierIdle
    /\ EngineIdle
    /\ cycle_pc = "scoring"
    /\ cycle_config = [openai |-> TRUE, outreach |-> TRUE]
    /\ users \in TenantLists \ {<<>>}
    /\ user_i = 1
    /\ outcomes = <<>>
    /\ raw_leads = <<>>
    /\ created_leads = 1
    /\ session_new = <<>>
    /\ automation_logs = <<run_log(1)>>
    /\ propagated = NoException
    /\ cycles_run = MaxCycles
    /\ last_skipped = NoSkip
    /\ caught = NoException
    /\ scoring = <<>>
    /\ lead_table = WithCreatedLead(OutreachStore, users[1])
    /\ emails_sent_count = [u \in Tenants |-> 0]
    /\ api_status = 0
    /\ outreach = NoOutreach

\* The scoring step, the outreach step and the logging of the tenant's run.
NextOutreach ==
    \/ RunAiScoring
    \/ RunOutreach
    \/ LogRun

SpecOutreach == InitOutreach /\ [][NextOutreach]_vars

\* C21: the outreach step of one tenant in one cycle dispatches at most
\* OutreachLimit messages, both phases counted together.
C21_AtMostLimitDispatches ==
    (outreach # NoOutreach /\ outreach.by = "cycle")
        => Cardinality(Dispatches) <= OutreachLimit

\* C23: the outreach step run while the cycle processes a tenant sends to,
\* and changes, only leads that tenant owns.
C23_OutreachOwnTenantOnly ==
    (outreach # NoOutreach /\ outreach.by = "cycle")
        => /\ \A a \in Dispatches :
                 Rows(outreach.before)[a.id].user_id = outreach.user
           /\ \A id \in RowIds(outreach.before) :
                 Rows(outreach.after)[id] # Rows(outreach.before)[id]
                     => Rows(outreach.before)[id].user_id = outreach.user

MaxDedup == 2

\* Field values with and without ':', the separator of the key.
DedupIds == {<<>>, <<"x">>, <<"a", ":", "c">>}

DedupUsernames == {<<"a">>, <<"a", ":", "b">>}

DedupTitles == {<<"c">>, <<"b", ":", "c">>}

DedupCandidates ==
    {RawLead(p, id, u, t, 5) :
        p \in {"reddit", "hackernews"}, id \in DedupIds,
        u \in DedupUsernames, t \in DedupTitles}

InitDedup ==
    /\ ScraperIdle
    /\ QualifierIdle
    /\ CycleIdle
    /\ EmptyStore
    /\ ContinueIdle
    /\ ScheduleIdle
    /\ PersonalizeIdle
    /\ FetchIdle
    /\ BatchIdle
    /\ RaceIdle
    /\ DispatchIdle
    /\ LoopIdle
    /\ ListingIdle
    /\ d_pc = "called"
    /\ d_leads \in SeqsUpTo(DedupCandidates, MaxDedup)
    /\ d_unique = <<>>

nonDedupVars == <<scrapeVars, fanoutVars, qualVars, cycleVars, leadVars,
                  continueVars, scheduleVars, personalizeVars, fetchVars,
                  batchVars, listingVars,
                  loopVars,
                  dispatchVars,
                  raceVars>>

\* deduplicate(leads) returns.
Deduplicate ==
    /\ d_pc = "called"
    /\ d_unique' = deduplicate(d_leads)
    /\ d_pc' = "returned"
    /\ UNCHANGED d_leads
    /\ UNCHANGED nonDedupVars

NextDedup ==
    \/ Deduplicate

SpecDedup == InitDedup /\ [][NextDedup]_vars

\* The positions of the candidates that are the first of their natural key.
FirstOfKey(leads) ==
    {i \in DOMAIN leads :
        \A j \in 1..(i - 1) : NaturalKey(leads[j]) # NaturalKey(leads[i])}

\* The candidates at the positions idx, in their order.
At(leads, idx) ==
    [k \in 1..Cardinality(idx) |->
        leads[CHOOSE i \in idx : Cardinality({j \in idx : j < i}) = k - 1]]

\* C38: deduplicate keeps, for every natural key of its input, the first
\* candidate that has it and drops the later ones: a candidate is dropped
\* only when an earlier one has the same natural key, and candidates of
\* different natural keys are never merged.
C38_DropsOnlySameNaturalKey ==
    d_pc = "returned" => d_unique = At(d_leads, FirstOfKey(d_leads))

\* ---------------------------------------------------------------------------
\* start_scheduler (automation/scheduler.py) and run_scheduler_loop (app.py):
\* the loops that run the automation cycle over and over
\* ---------------------------------------------------------------------------

\* time.sleep(60) of start_scheduler's except branch is the unit of time
RetryDelay == 1

\* interval_seconds: SCRAPE_INTERVAL_MINUTES, in units of the retry delay
Interval == 2

\* the longest a cycle takes, and the time up to which the loop is followed
MaxCycleTime == 1

MaxClock == 8

SchedulerModes == {"start_scheduler", "run_scheduler_loop"}

nonLoopVars == <<scrapeVars, fanoutVars, qualVars, cycleVars, leadVars,
                 continueVars, scheduleVars, personalizeVars, fetchVars,
                 batchVars, listingVars, dedupVars,
                  dispatchVars,
                  raceVars>>

InitLoop ==
    /\ ScraperIdle
    /\ QualifierIdle
    /\ CycleIdle
    /\ EmptyStore
    /\ ContinueIdle
    /\ ScheduleIdle
    /\ PersonalizeIdle
    /\ FetchIdle
    /\ BatchIdle
    /\ RaceIdle
    /\ DispatchIdle
    /\ ListingIdle
    /\ DedupIdle
    /\ s_mode \in SchedulerModes
    /\ s_pc = "start"
    /\ s_initial = FALSE
    /\ s_clock = 0
    /\ s_started = -1
    /\ s_finished = -1
    /\ s_exit = None

\* start_scheduler calls run_automation_cycle() before its while loop and
\* outside its try; run_scheduler_loop's first cycle is inside its try.
StartScheduler ==
    /\ s_pc = "start"
    /\ s_pc' = "cycle"
    /\ s_initial' = (s_mode = "start_scheduler")
    /\ s_started' = s_clock
    /\ UNCHANGED <<s_mode, s_clock, s_finished, s_exit>>
    /\ UNCHANGED nonLoopVars

\* run_automation_cycle returns: both loops sleep the interval next.
CycleReturns ==
    /\ s_pc = "cycle"
    /\ \E d \in 0..MaxCycleTime :
        /\ s_clock + d <= MaxClock
        /\ s_clock' = s_clock + d
        /\ s_finished' = s_clock + d
    /\ s_pc' = "sleep"
    /\ UNCHANGED <<s_mode, s_initial, s_started, s_exit>>
    /\ UNCHANGED nonLoopVars

\* run_automation_cycle raises (check_configuration and the tenant query are
\* outside its try blocks).  The cycle before start_scheduler's loop has no
\* handler around it; inside the loop `except Exception` sleeps 60 seconds and
\* the loop goes on; run_scheduler_loop logs and sleeps the interval.
CycleRaises ==
    /\ s_pc = "cycle"
    /\ \E d \in 0..MaxCycleTime :
        /\ s_clock + d <= MaxClock
        /\ s_clock' = s_clock + d
        /\ s_finished' = s_clock + d
    /\ IF s_mode = "run_scheduler_loop"
         THEN s_pc' = "sleep" /\ s_exit' = s_exit
         ELSE IF s_initial
                THEN s_pc' = "exited" /\ s_exit' = "Exception"
                ELSE s_pc' = "retry_sleep" /\ s_exit' = s_exit
    /\ UNCHANGED <<s_mode, s_initial, s_started>>
    /\ UNCHANGED nonLoopVars

\* time.sleep(interval_seconds), then the next run_automation_cycle()
Sleep ==
    /\ s_pc = "sleep"
    /\ s_clock + Interval <= MaxClock
    /\ s_clock' = s_clock + Interval
    /\ s_started' = s_clock + Interval
    /\ s_pc' = "cycle"
    /\ s_initial' = FALSE
    /\ UNCHANGED <<s_mode, s_finished, s_exit>>
    /\ UNCHANGED nonLoopVars

\* time.sleep(60) of the except branch, then the loop's top
RetrySleep ==
    /\ s_pc = "retry_sleep"
    /\ s_clock + RetryDelay <= MaxClock
    /\ s_clock' = s_clock + RetryDelay
    /\ s_pc' = "sleep"
    /\ UNCHANGED <<s_mode, s_initial, s_started, s_finished, s_exit>>
    /\ UNCHANGED nonLoopVars

\* The operator's Ctrl+C: `except KeyboardInterrupt: break` inside the loop's
\* try; anywhere else the interrupt leaves the function.  run_scheduler_loop
\* is a daemon thread and ends with the process.
Interrupt ==
    /\ s_pc \in {"cycle", "sleep", "retry_sleep"}
    /\ IF s_mode = "start_scheduler" /\ (s_initial \/ s_pc = "retry_sleep")
         THEN s_pc' = "exited"
         ELSE s_pc' = "stopped"
    /\ s_exit' = "KeyboardInterrupt"
    /\ UNCHANGED <<s_mode, s_initial, s_clock, s_started, s_finished>>
    /\ UNCHANGED nonLoopVars

NextScheduler ==
    \/ StartScheduler
    \/ CycleReturns
    \/ CycleRaises
    \/ Sleep
    \/ RetrySleep
    \/ Interrupt

SpecScheduler == InitLoop /\ [][NextScheduler]_vars

\* Every cycle but the first starts a whole interval after the cycle before
\* it returned or raised.
CyclesSpacedByInterval ==
    (s_pc = "cycle" /\ s_finished # -1) => s_started >= s_finished + Interval

\* C31: an exception raised by a cycle does not end the scheduler loop: the
\* loop is left only by the operator's interrupt, never by an exception.
C31_ExceptionNeverEndsLoop ==
    s_exit # "Exception"

\* ---------------------------------------------------------------------------
\* OutreachAgent's two phases over many cycles: the emails each lead was sent
\* ---------------------------------------------------------------------------

OutreachPhases == {"initial", "closing"}

\* the emails of one phase counted per lead; counting stops here
MaxDispatches == 2

NoDispatches == [k \in (Tenants \X (1..MaxRows)) \X OutreachPhases |-> 0]

\* The leads among `done` whose email send_smtp_email delivered.
Delivered(attempts, done) == {id \in done : attempts[id] = "sent"}

\* The counts after the phase's emails to `sent` were delivered.
Count(counts, sent, phase) ==
    [k \in DOMAIN counts |->
        IF k[1] \in sent /\ k[2] = phase
        THEN Min(counts[k] + 1, MaxDispatches)
        ELSE counts[k]]

nonDispatchVars == <<scrapeVars, fanoutVars, qualVars, cycleVars,
                     continueVars, scheduleVars, personalizeVars, fetchVars,
                     batchVars, listingVars, dedupVars, loopVars, raceVars>>

InitDispatch ==
    /\ ScraperIdle
    /\ QualifierIdle
    /\ CycleIdle
    /\ ContinueIdle
    /\ ScheduleIdle
    /\ PersonalizeIdle
    /\ FetchIdle
    /\ BatchIdle
    /\ ListingIdle
    /\ DedupIdle
    /\ LoopIdle
    /\ RaceIdle
    /\ lead_table \in StoredTables
    /\ emails_sent_count = [u \in Tenants |-> 0]
    /\ api_status = 0
    /\ outreach = NoOutreach
    /\ dispatched = NoDispatches
    /\ o_fate = <<>>
    /\ o_tick = 0

\* process_outreach_cycle returns: both phases ran their loop and committed.
OutreachCommits ==
    /\ \E run \in OutreachRuns(lead_table, OutreachLimit, TRUE) :
          /\ lead_table' = run.table
          /\ dispatched' =
                Count(Count(dispatched,
                            Delivered(run.initial, DOMAIN run.initial),
                            "initial"),
                      Delivered(run.closing, DOMAIN run.closing), "closing")
    /\ outreach' = NoOutreach
    /\ UNCHANGED <<emails_sent_count, api_status, o_fate, o_tick>>
    /\ UNCHANGED nonDispatchVars

\* _run_initial_outreach raises after its loop dealt with the leads `done`:
\* a query of the loop or db.session.commit() after it fails.  The emails
\* of `done` are out; the session is discarded with the status changes it
\* held, and process_outreach_cycle does not reach the closing phase.
InitialOutreachRaises ==
    /\ \E attempts \in InitialAttempts(lead_table, OutreachLimit, TRUE) :
       \E done \in SUBSET (DOMAIN attempts) :
          dispatched' = Count(dispatched, Delivered(attempts, done), "initial")
    /\ outreach' = NoOutreach
    /\ UNCHANGED <<lead_table, emails_sent_count, api_status, o_fate, o_tick>>
    /\ UNCHANGED nonDispatchVars

\* _run_initial_outreach committed, _run_auto_closing raises after its loop
\* dealt with the leads `done`.
AutoClosingRaises ==
    /\ \E initial \in InitialAttempts(lead_table, OutreachLimit, TRUE) :
       \E closing \in ClosingAttempts(apply_initial(lead_table, initial),
                                      OutreachLimit, TRUE) :
       \E done \in SUBSET (DOMAIN closing) :
          /\ lead_table' = apply_initial(lead_table, initial)
          /\ dispatched' =
                Count(Count(dispatched,
                            Delivered(initial, DOMAIN initial), "initial"),
                      Delivered(closing, done), "closing")
    /\ outreach' = NoOutreach
    /\ UNCHANGED <<emails_sent_count, api_status, o_fate, o_tick>>
    /\ UNCHANGED nonDispatchVars

NextDispatch ==
    \/ OutreachCommits
    \/ InitialOutreachRaises
    \/ AutoClosingRaises
    \/ ExternalTransition

SpecDispatch == InitDispatch /\ [][NextDispatch]_vars

\* C37: over any sequence of outreach cycles a lead is sent the initial
\* outreach email at most once and the closing email at most once.
C37_EachMessageAtMostOnce ==
    \A k \in DOMAIN dispatched : dispatched[k] <= 1

\* The same, for the cycles that all returned: a lead whose email went out
\* has left the phase's query.
OnceWhenCommitted ==
    [][OutreachCommits =>
          \A k \in DOMAIN dispatched :
              dispatched'[k] > dispatched[k] =>
                  Rows(lead_table')[k[1]].status
                      = (IF k[2] = "initial" THEN "contacted" ELSE "closing")]_vars

\* ---------------------------------------------------------------------------
\* process_outreach_cycle(limit=5) run again and again over more eligible
\* leads than the limit
\* ---------------------------------------------------------------------------

\* One tenant's leads, one more than a phase selects.
StarveIds == {<<1, i>> : i \in 1..(OutreachLimit + 1)}

\* What generation and dispatch come to for a lead, in every cycle: the
\* email goes out, or no content is generated for it.
Fates == {"sent", "no_content"}

StarveTables ==
    {[u \in Tenants |->
         IF u = 1
         THEN [i \in 1..(OutreachLimit + 1) |->
                  [StoredLead(i, 1, InitialOutreachScore, "lead@example.com")
                      EXCEPT !.status = st[i]]]
         ELSE <<>>] :
        st \in [1..(OutreachLimit + 1) -> {"new", "responded"}]}

InitStarve ==
    /\ ScraperIdle
    /\ QualifierIdle
    /\ CycleIdle
    /\ ContinueIdle
    /\ ScheduleIdle
    /\ PersonalizeIdle
    /\ FetchIdle
    /\ BatchIdle
    /\ ListingIdle
    /\ DedupIdle
    /\ LoopIdle
    /\ RaceIdle
    /\ lead_table \in StarveTables
    /\ emails_sent_count = [u \in Tenants |-> 0]
    /\ api_status = 0
    /\ outreach = NoOutreach
    /\ dispatched = <<>>
    /\ o_fate \in [StarveIds -> Fates]
    /\ o_tick = 0

\* One process_outreach_cycle that returns: each phase selects up to
\* `limit` of the rows its query matches, and every selected lead meets
\* its fate.
OutreachCycle ==
    /\ \E isel \in Limited(initial_outreach_query(lead_table), OutreachLimit) :
          LET initial == [id \in isel |-> o_fate[id]]
              contacted == apply_initial(lead_table, initial)
          IN  \E csel \in Limited(auto_closing_query(contacted), OutreachLimit) :
                  LET closing == [id \in csel |-> o_fate[id]]
                  IN  lead_table' = apply_closing(contacted, closing)
    /\ o_tick' = 1 - o_tick
    /\ outreach' = NoOutreach
    /\ UNCHANGED <<emails_sent_count, api_status, dispatched, o_fate>>
    /\ UNCHANGED nonDispatchVars

NextStarve == OutreachCycle

\* The scheduler keeps running outreach cycles.
SpecStarve == InitStarve /\ [][NextStarve]_vars /\ WF_vars(OutreachCycle)

\* The lead a scan of the table in the order of its rows reaches last.
LastLead == <<1, OutreachLimit + 1>>

\* C36: a lead eligible for the initial outreach whose generation and
\* dispatch succeed is contacted after finitely many outreach cycles, and
\* a responded lead whose closing succeeds is sent the closing message,
\* whatever becomes of the other eligible leads.
C36_EligibleLeadEventuallyReached ==
    (/\ o_fate # <<>>
     /\ o_fate[LastLead] = "sent"
     /\ LastLead \in initial_outreach_query(lead_table)
                       \cup auto_closing_query(lead_table))
        ~> (Rows(lead_table)[LastLead].status \in {"contacted", "closing"})

\* A lead whose generation and dispatch succeed is reached in the cycle
\* that selects it.
ReachedWhenSelected ==
    [][\A id \in StarveIds :
          (o_fate[id] = "sent" /\ id \in initial_outreach_query(lead_table)
              /\ Cardinality(initial_outreach_query(lead_table)) <= OutreachLimit)
              => Rows(lead_table')[id].status = "contacted"]_vars

\* ---------------------------------------------------------------------------
\* Two run_real_scraping_pipeline calls for one tenant at the same time: the
\* scheduler's (run_scheduler_loop's thread or the scheduler process) and
\* the one POST /generate-leads starts, each with its own database session
\* ---------------------------------------------------------------------------

RunIds == {"scheduler", "api"}

\* the most candidates a scrape returns here
MaxRaceLeads == 2

\* What the scrapes return: deduplicated posts.
RacePosts ==
    {[platform |-> "reddit", external_id |-> "abc",
      post_url |-> "reddit.com/r/saas/abc"],
     [platform |-> "hackernews", external_id |-> "hn_1",
      post_url |-> "news.ycombinator.com/item?id=1"]}

RaceRawLeads ==
    {raw \in SeqsUpTo(RacePosts, MaxRaceLeads) :
        /\ raw # <<>>
        /\ \A i, j \in DOMAIN raw : raw[i] = raw[j] => i = j}

\* Lead(user_id=user_id, platform=raw.platform, ...), with the run that
\* created it.
RaceLead(raw, run) ==
    [platform |-> raw.platform, external_id |-> raw.external_id,
     post_url |-> raw.post_url, by |-> run]

\* Lead.query.filter(...).first() of the existence check in run's session:
\* the committed rows and, flushed before the query, the session's own.
SeenBy(run) == r_leads \o r_new[run]

ExistingFor(run, raw) ==
    \E i \in DOMAIN SeenBy(run) :
        \/ SeenBy(run)[i].external_id = raw.external_id
        \/ SeenBy(run)[i].post_url = raw.post_url

nonRaceVars == <<scrapeVars, fanoutVars, qualVars, cycleVars, leadVars,
                 continueVars, scheduleVars, personalizeVars, fetchVars,
                 batchVars, listingVars, dedupVars, loopVars, dispatchVars>>

\* Both runs have scraped and are at the top of the persistence loop.
InitRace ==
    /\ ScraperIdle
    /\ QualifierIdle
    /\ CycleIdle
    /\ EmptyStore
    /\ ContinueIdle
    /\ ScheduleIdle
    /\ PersonalizeIdle
    /\ FetchIdle
    /\ BatchIdle
    /\ ListingIdle
    /\ DedupIdle
    /\ LoopIdle
    /\ DispatchIdle
    /\ r_pc = [run \in RunIds |-> "loop"]
    /\ r_raw \in [RunIds -> RaceRawLeads]
    /\ r_i = [run \in RunIds |-> 1]
    /\ r_new = [run \in RunIds |-> <<>>]
    /\ r_leads \in {<<>>} \cup {<<RaceLead(raw, "earlier")>> : raw \in RacePosts}

\* `if existing: continue`
RunSkips ==
    /\ \E run \in RunIds :
          /\ r_pc[run] = "loop"
          /\ r_i[run] <= Len(r_raw[run])
          /\ ExistingFor(run, r_raw[run][r_i[run]])
          /\ r_i' = [r_i EXCEPT ![run] = @ + 1]
    /\ UNCHANGED <<r_pc, r_raw, r_new, r_leads>>
    /\ UNCHANGED nonRaceVars

\* db.session.add(lead)
RunAdds ==
    /\ \E run \in RunIds :
          /\ r_pc[run] = "loop"
          /\ r_i[run] <= Len(r_raw[run])
          /\ ~ ExistingFor(run, r_raw[run][r_i[run]])
          /\ r_new' = [r_new EXCEPT
                          ![run] = Append(@, RaceLead(r_raw[run][r_i[run]], run))]
          /\ r_i' = [r_i EXCEPT ![run] = @ + 1]
    /\ UNCHANGED <<r_pc, r_raw, r_leads>>
    /\ UNCHANGED nonRaceVars

\* After the loop: `if created_leads: db.session.commit()`, and the return.
RunCommits ==
    /\ \E run \in RunIds :
          /\ r_pc[run] = "loop"
          /\ r_i[run] > Len(r_raw[run])
          /\ r_leads' = r_leads \o r_new[run]
          /\ r_new' = [r_new EXCEPT ![run] = <<>>]
          /\ r_pc' = [r_pc EXCEPT ![run] = "returned"]
    /\ UNCHANGED <<r_raw, r_i>>
    /\ UNCHANGED nonRaceVars

NextRace ==
    \/ RunSkips
    \/ RunAdds
    \/ RunCommits

SpecRace == InitRace /\ [][NextRace]_vars

\* The rows one run adds are no duplicates of each other.
OwnRowsDistinct ==
    \A run \in RunIds :
        \A i, j \in DOMAIN r_new[run] :
            r_new[run][i].external_id = r_new[run][j].external_id => i = j

\* C34: whatever the interleaving of two overlapping runs for one tenant,
\* the tenant never has two stored leads with the same platform and
\* external_id.
C34_NoDuplicateAcrossRuns ==
    \A i, j \in DOMAIN r_leads :
        (r_leads[i].platform = r_leads[j].platform
            /\ r_leads[i].external_id = r_leads[j].external_id) => i = j

====
